---- MODULE Spec2Model ----
(***************************************************************************)
(* A model of the Ansys documentation loader (ansys_resource_loader.py),  *)
(* of the tool handlers of the two servers that call it, of the PDF        *)
(* extractor that writes the corpus file, and of the two launchers.        *)
(*                                                                         *)
(* Text is a sequence of one-character strings, so that lower(), `in`,     *)
(* count(), split(), slicing and strip() are computed as Python computes   *)
(* them.  A relevance score is the pair <<numerator, denominator>> of the  *)
(* quotient the code divides; scores are compared by cross-multiplying     *)
(* (the quotients of the model are small enough for the float division to  *)
(* keep their order and their equalities).                                 *)
(***************************************************************************)
EXTENDS Integers, Sequences, FiniteSets, TLC

VARIABLES
    pdf_file,         \* extracted/pdf_extracted_content.json on disk
    html_file,        \* extracted/mechanical.docs.pyansys.com_processed.json on disk
    _pdf_cache,       \* self._pdf_cache: None until the first get_pdf_data
    _resource_cache,  \* self._resource_cache["pymechanical"]: absent until first read
    pc,               \* "idle": waiting for a call; "returned": a call has been answered
    last,             \* the call being answered: its arguments and its return value
    pdf_dir,          \* resources/docs/pdf: the PDF files the extractor finds, in glob order
    now,              \* the wall clock datetime.now() reads
    individual_files, \* extracted/<stem>_extracted.json, one per extracted PDF
    index_file,       \* metadata/resource_index.json on disk
    _index_cache,     \* self._index_cache: None until the first get_resource_index
    threads,          \* the callers inside a loader method, each with its position in it
    server_process,   \* the launcher's self.server_process: "None" or the "Popen" handle
    inspector_process, \* the launcher's self.inspector_process
    launcher          \* a launcher process: where run() and the signal handler stand, and
                      \* what has become of the children

vars == <<pdf_file, html_file, _pdf_cache, _resource_cache, pc, last,
          pdf_dir, now, individual_files, index_file, _index_cache, threads,
          server_process, inspector_process, launcher>>

\* what the extractor owns
extractor_vars == <<pdf_dir, now, individual_files>>

\* what only the launchers touch
launcher_vars == <<server_process, inspector_process, launcher>>

\* what only get_resource_index, concurrent callers and the launchers touch
index_vars == <<index_file, _index_cache, threads, launcher_vars>>

\* no launcher has been started
NotLaunched ==
    /\ server_process = "None"
    /\ inspector_process = "None"
    /\ launcher = [pc |-> "none"]

-----------------------------------------------------------------------------
(* Python's str and list primitives                                        *)

Min(a, b) == IF a < b THEN a ELSE b

Max(a, b) == IF a > b THEN a ELSE b

UpperCase == <<"A", "B", "C", "D", "E", "F", "G", "L", "N", "O", "P", "R", "S", "Y">>

LowerCase == <<"a", "b", "c", "d", "e", "f", "g", "l", "n", "o", "p", "r", "s", "y">>

LowerChar(c) ==
    IF \E k \in 1..Len(UpperCase) : UpperCase[k] = c
    THEN LowerCase[CHOOSE k \in 1..Len(UpperCase) : UpperCase[k] = c]
    ELSE c

\* str.lower()
lower(s) == [i \in 1..Len(s) |-> LowerChar(s[i])]

IsSpace(c) == c \in {" ", "\n"}

\* text[i:j] with 0 <= i, j (Python clamps both ends to len(text))
Slice(text, i, j) == SubSeq(text, Min(i, Len(text)) + 1, Min(j, Len(text)))

\* sub occurs in text at the 0-based offset i
OccursAt(text, sub, i) ==
    /\ i + Len(sub) <= Len(text)
    /\ Slice(text, i, i + Len(sub)) = sub

\* `sub in text`
Contains(text, sub) == \E i \in 0..Len(text) : OccursAt(text, sub, i)

\* the least element of a non-empty set of numbers
Least(S) == CHOOSE i \in S : \A j \in S : i <= j

\* the offsets at which sub occurs in text
OffsetsOf(text, sub) == {i \in 0..Len(text) : OccursAt(text, sub, i)}

RECURSIVE CountFrom(_, _, _)
\* the scan of str.count from offset i: the leftmost occurrence at or behind i counts,
\* and the scan goes on behind its end
CountFrom(offsets, n, i) ==
    IF \A j \in offsets : j < i THEN 0
    ELSE 1 + CountFrom(offsets, n, Least({j \in offsets : j >= i}) + n)

\* str.count(sub): non-overlapping occurrences; len(text) + 1 for the empty sub
count(text, sub) ==
    IF sub = <<>> THEN Len(text) + 1 ELSE CountFrom(OffsetsOf(text, sub), Len(sub), 0)

RECURSIVE SplitFrom(_, _, _)
\* the scan of str.split() from position i: skip the whitespace in front of the next
\* token, take the token up to the next whitespace, and go on behind it
SplitFrom(text, i, acc) ==
    IF \A s \in i..Len(text) : IsSpace(text[s]) THEN acc
    ELSE LET s == Least({k \in i..Len(text) : ~IsSpace(text[k])})
             e == Least({k \in s..Len(text) : k = Len(text) \/ IsSpace(text[k + 1])})
         IN SplitFrom(text, e + 1, Append(acc, SubSeq(text, s, e)))

\* str.split(): the whitespace-separated tokens
split(text) == SplitFrom(text, 1, <<>>)

RECURSIVE strip(_)
strip(s) ==
    IF s = <<>> THEN s
    ELSE IF IsSpace(s[1]) THEN strip(Tail(s))
    ELSE IF IsSpace(s[Len(s)]) THEN strip(SubSeq(s, 1, Len(s) - 1))
    ELSE s

RECURSIVE join(_, _)
\* sep.join(parts)
join(sep, parts) ==
    IF parts = <<>> THEN <<>>
    ELSE IF Len(parts) = 1 THEN parts[1]
    ELSE parts[1] \o sep \o join(sep, Tail(parts))

\* a faulty slice, results[:n + 1], which the bound on the result length must detect
TruncateOneMore(results, n) ==
    IF n + 1 >= 0 THEN SubSeq(results, 1, Min(n + 1, Len(results)))
    ELSE SubSeq(results, 1, Max(Len(results) + n + 1, 0))

\* results[:n]; a negative n counts from the end of the list
Truncate(results, n) ==
    IF n >= 0 THEN SubSeq(results, 1, Min(n, Len(results)))
    ELSE SubSeq(results, 1, Max(Len(results) + n, 0))

RECURSIVE SumOver(_, _, _)
\* sum(text.count(word) for word in words)
SumOver(text, words, i) ==
    IF i > Len(words) THEN 0
    ELSE count(text, words[i]) + SumOver(text, words, i + 1)

Ellipsis == <<".", ".", ".">>

-----------------------------------------------------------------------------
(* The loader: AnsysResourceLoader                                         *)

\* context_size's default in _extract_context
ContextSize == 300

\* the cut-off of get_chapter_content
ChapterTruncate == 5000

\* Optional[Dict]: None, or the parsed JSON document
None == [is_none |-> TRUE, data |-> <<>>]

Some(d) == [is_none |-> FALSE, data |-> d]

\* _load_json_file: None for a missing file and for one json.load rejects
_load_json_file(file) ==
    IF ~file.exists THEN None
    ELSE IF ~file.valid THEN None
    ELSE Some(file.data)

\* `loaded or {}`
OrEmpty(loaded, empty) == IF loaded.is_none THEN empty ELSE loaded.data

EmptyPdfData == [pdfs |-> <<>>]

EmptyHtmlData == [has_content |-> FALSE, content |-> <<>>]

\* get_pdf_data: the value of self._pdf_cache after the call (also what it returns)
\* a faulty get_pdf_data that has lost the test `self._pdf_cache is None` and reads the
\* file on every call
get_pdf_data_uncached(cache, file) == Some(OrEmpty(_load_json_file(file), EmptyPdfData))

get_pdf_data(cache, file) ==
    IF cache.is_none THEN Some(OrEmpty(_load_json_file(file), EmptyPdfData))
    ELSE cache

\* get_pymechanical_docs: the value of self._resource_cache["pymechanical"] after the call
get_pymechanical_docs(cache, file) ==
    IF cache.is_none THEN Some(OrEmpty(_load_json_file(file), EmptyHtmlData))
    ELSE cache

\* re.search(re.escape(query), text, re.IGNORECASE): the 0-based offsets where it matches
\* where re.search(re.escape(query), text, re.IGNORECASE) can match
MatchOffsets(text, query) == OffsetsOf(lower(text), lower(query))

FirstMatch(text, query) == Least(MatchOffsets(text, query))

\* a faulty window that takes context_size characters on each side of the match instead
\* of context_size // 2
_extract_context_full_width(text, query, context_size) ==
    IF MatchOffsets(text, query) # {}
    THEN LET mstart == FirstMatch(text, query)
             mend == mstart + Len(query)
             start == Max(0, mstart - context_size)
             end == Min(Len(text), mend + context_size)
             context == Slice(text, start, end)
             pre == IF start > 0 THEN Ellipsis \o context ELSE context
             post == IF end < Len(text) THEN pre \o Ellipsis ELSE pre
         IN strip(post)
    ELSE IF Len(text) > context_size
         THEN Slice(text, 0, context_size) \o Ellipsis
         ELSE text

_extract_context(text, query, context_size) ==
    IF MatchOffsets(text, query) # {}
    THEN LET mstart == FirstMatch(text, query)
             mend == mstart + Len(query)
             start == Max(0, mstart - context_size \div 2)
             end == Min(Len(text), mend + context_size \div 2)
             context == Slice(text, start, end)
             pre == IF start > 0 THEN Ellipsis \o context ELSE context
             post == IF end < Len(text) THEN pre \o Ellipsis ELSE pre
         IN strip(post)
    ELSE IF Len(text) > context_size
         THEN Slice(text, 0, context_size) \o Ellipsis
         ELSE text

\* a faulty score that counts the words of an exact match once: the word matches leave
\* out the words the exact matches hold
_calculate_relevance_counted_once(text, query) ==
    LET text_lower == lower(text)
        query_lower == lower(query)
        exact_matches == count(text_lower, query_lower)
        query_words == split(query_lower)
        word_matches == SumOver(text_lower, query_words, 1) - exact_matches * Len(query_words)
    IN <<exact_matches * 2 + word_matches, Len(split(text)) + 1>>

\* _calculate_relevance: the quotient (exact * 2 + words) / (len(text.split()) + 1)
_calculate_relevance(text, query) ==
    LET text_lower == lower(text)
        query_lower == lower(query)
        exact_matches == count(text_lower, query_lower)
        query_words == split(query_lower)
        word_matches == SumOver(text_lower, query_words, 1)
    IN <<exact_matches * 2 + word_matches, Len(split(text)) + 1>>

ScoreLess(a, b) == a[1] * b[2] < b[1] * a[2]

ScoreEq(a, b) == a[1] * b[2] = b[1] * a[2]

PdfEntry(pdf_name, page, query_lower) ==
    [source |-> pdf_name, type |-> "pdf", page |-> page.page_number,
     title |-> <<>>, file |-> "",
     context |-> _extract_context(page.clean_text, query_lower, ContextSize),
     relevance_score |-> _calculate_relevance(page.clean_text, query_lower)]

HtmlEntry(item, query_lower) ==
    [source |-> "PyMechanical Docs", type |-> "html", page |-> 0,
     title |-> item.title, file |-> item.file,
     context |-> _extract_context(item.content, query_lower, ContextSize),
     relevance_score |->
         _calculate_relevance(item.content \o <<" ">> \o item.title, query_lower)]

PageMatches(page, query_lower) == Contains(lower(page.clean_text), query_lower)

\* a faulty scan that has lost the test `query_lower in text.lower()`
DocEntriesUnfiltered(doc, query_lower) ==
    IF ~doc.has_pages THEN <<>>
    ELSE [i \in 1..Len(doc.pages) |-> PdfEntry(doc.name, doc.pages[i], query_lower)]

\* the entries of one document's pages, in page-list order
DocEntries(doc, query_lower) ==
    IF ~doc.has_pages THEN <<>>
    ELSE LET hits == SelectSeq(doc.pages, LAMBDA p : PageMatches(p, query_lower))
         IN [i \in 1..Len(hits) |-> PdfEntry(doc.name, hits[i], query_lower)]

RECURSIVE PdfEntriesStopAtFailed(_, _)
\* a faulty loop that reads pdf_content["pages"] without the test `"pages" in pdf_content`:
\* the KeyError of a failed document ends the scan of the documents behind it
PdfEntriesStopAtFailed(pdfs, query_lower) ==
    IF pdfs = <<>> THEN <<>>
    ELSE IF ~Head(pdfs).has_pages THEN <<>>
    ELSE DocEntries(Head(pdfs), query_lower) \o PdfEntriesStopAtFailed(Tail(pdfs), query_lower)

RECURSIVE PdfEntries(_, _)
\* the loop over pdf_data["pdfs"].items()
PdfEntries(pdfs, query_lower) ==
    IF pdfs = <<>> THEN <<>>
    ELSE DocEntries(Head(pdfs), query_lower) \o PdfEntries(Tail(pdfs), query_lower)

ItemMatches(item, query_lower) ==
    \/ Contains(lower(item.content), query_lower)
    \/ Contains(lower(item.title), query_lower)

\* the loop over html_data["content"]
HtmlEntries(html_data, query_lower) ==
    IF ~html_data.has_content THEN <<>>
    ELSE LET hits == SelectSeq(html_data.content, LAMBDA it : ItemMatches(it, query_lower))
         IN [i \in 1..Len(hits) |-> HtmlEntry(hits[i], query_lower)]

RECURSIVE InsertDescending(_, _)
\* x goes behind every entry whose score is not smaller: equal scores keep their order
InsertDescending(sorted, x) ==
    IF sorted = <<>> THEN <<x>>
    ELSE IF ScoreLess(Head(sorted).relevance_score, x.relevance_score)
         THEN <<x>> \o sorted
         ELSE <<Head(sorted)>> \o InsertDescending(Tail(sorted), x)

RECURSIVE SortFrom(_, _, _)
SortFrom(results, i, sorted) ==
    IF i > Len(results) THEN sorted
    ELSE SortFrom(results, i + 1, InsertDescending(sorted, results[i]))

RECURSIVE Reversed(_)
Reversed(list) ==
    IF list = <<>> THEN <<>> ELSE Append(Reversed(Tail(list)), Head(list))

\* a faulty sort, ascending and then reversed, which turns the order of equal scores round
SortThenReverse(results) == Reversed(SortFrom(Reversed(results), 1, <<>>))

\* results.sort(key=relevance_score, reverse=True): a stable sort
SortByRelevance(results) == SortFrom(results, 1, <<>>)

\* search_content: what it returns on the (loaded) data
\* a faulty search that has lost `query_lower = query.lower()` and looks for the query as
\* the caller wrote it
search_content_case_kept(pdf_data, html_data, query, max_results) ==
    LET results == PdfEntries(pdf_data.pdfs, query) \o HtmlEntries(html_data, query)
    IN Truncate(SortByRelevance(results), max_results)

search_content(pdf_data, html_data, query, max_results) ==
    LET query_lower == lower(query)
        results == PdfEntries(pdf_data.pdfs, query_lower)
                       \o HtmlEntries(html_data, query_lower)
    IN Truncate(SortByRelevance(results), max_results)

\* pdf_data.get("pdfs", {}).get(pdf_name, {}): a missing document reads as a dict without keys
EmptyDoc == [name |-> "", has_pages |-> FALSE, pages |-> <<>>, chapters |-> <<>>]

DocNamed(pdfs, pdf_name) ==
    LET found == SelectSeq(pdfs, LAMBDA d : d.name = pdf_name)
    IN IF found = <<>> THEN EmptyDoc ELSE found[1]

\* a faulty lookup, pdf_data.get(pdf_name, {}), that skips the "pdfs" level and so finds
\* no document
get_pdf_chapters_unnested(pdf_data, pdf_name) == EmptyDoc.chapters

\* get_pdf_chapters
get_pdf_chapters(pdf_data, pdf_name) == DocNamed(pdf_data.pdfs, pdf_name).chapters

\* list.index(x): the 0-based position of the first element equal to x
IndexOf(list, x) == (CHOOSE i \in 1..Len(list) :
                        /\ list[i] = x
                        /\ \A j \in 1..(i - 1) : list[j] # x) - 1

\* a faulty test, `chapter_title and chapter_title.lower() in ...`, that lets the empty
\* fragment match no title
MatchingChaptersNonEmpty(chapters, chapter_title) ==
    IF chapter_title = <<>> THEN {}
    ELSE {i \in 1..Len(chapters) : Contains(lower(chapters[i].title), lower(chapter_title))}

\* the chapter the loop `for chapter in chapters` returns on: the first whose title matches
MatchingChapters(chapters, chapter_title) ==
    {i \in 1..Len(chapters) : Contains(lower(chapters[i].title), lower(chapter_title))}

\* a faulty loop that keeps the last match instead of returning on the first
LastMatching(chapters, chapter_title) ==
    CHOOSE i \in MatchingChapters(chapters, chapter_title) :
        \A j \in MatchingChapters(chapters, chapter_title) : i >= j

FirstMatching(chapters, chapter_title) ==
    CHOOSE i \in MatchingChapters(chapters, chapter_title) :
        \A j \in MatchingChapters(chapters, chapter_title) : i <= j

\* chapters[current_idx + 1].get("start_page") when there is a next chapter, else None
NextChapterPage(chapters, current_idx) ==
    IF current_idx + 1 < Len(chapters)
    THEN Some(chapters[current_idx + 2].start_page)
    ELSE None

\* `if next_chapter_page`: None and 0 are both false
Truthy(n) == ~n.is_none /\ n.data # 0

\* the dict get_pdf_content_by_chapter returns for the matched chapter
ChapterResult(pages, chapters, chapter) ==
    LET start_page == chapter.start_page
        from_start == SelectSeq(pages, LAMBDA p : p.page_number >= start_page)
        current_idx == IndexOf(chapters, chapter)
        next_chapter_page == NextChapterPage(chapters, current_idx)
        chapter_pages ==
            IF Truthy(next_chapter_page)
            THEN SelectSeq(from_start, LAMBDA p : p.page_number < next_chapter_page.data)
            ELSE from_start
        chapter_text ==
            join(<<"\n">>, [i \in 1..Len(chapter_pages) |-> chapter_pages[i].clean_text])
    IN [title |-> chapter.title,
        start_page |-> start_page,
        end_page |-> IF Truthy(next_chapter_page)
                     THEN next_chapter_page.data - 1
                     ELSE Len(pages),
        content |-> chapter_text,
        sections |-> chapter.sections]

\* get_pdf_content_by_chapter: <<>> is the empty dict, <<r>> the dict r
get_pdf_content_by_chapter(pdf_data, pdf_name, chapter_title) ==
    LET pdf_content == DocNamed(pdf_data.pdfs, pdf_name)
        chapters == pdf_content.chapters
    IN IF MatchingChapters(chapters, chapter_title) = {} THEN <<>>
       ELSE <<ChapterResult(pdf_content.pages, chapters,
                            chapters[FirstMatching(chapters, chapter_title)])>>

-----------------------------------------------------------------------------
(* The tool handler get_chapter_content of both servers.  Its text is the  *)
(* template it fills and the values it interpolates.                       *)

ChapterList(available_chapters) ==
    join(<<"\n">>, [i \in 1..Len(available_chapters) |->
                        <<"-", " ">> \o available_chapters[i].title])

get_chapter_content(pdf_data, pdf_name, chapter_title) ==
    LET chapter_content == get_pdf_content_by_chapter(pdf_data, pdf_name, chapter_title)
    IN IF chapter_content = <<>>
       THEN [template |-> "Chapter '{}' not found in {}. Available chapters: {}",
             chapter_title |-> chapter_title, pdf_name |-> pdf_name,
             title |-> <<>>, start_page |-> 0, end_page |-> 0, truncated |-> FALSE,
             body |-> ChapterList(get_pdf_chapters(pdf_data, pdf_name))]
       ELSE LET chapter_text == chapter_content[1].content
            IN [template |-> "# {} Source: {} Pages: {} - {} {}",
                chapter_title |-> chapter_title, pdf_name |-> pdf_name,
                title |-> chapter_content[1].title,
                start_page |-> chapter_content[1].start_page,
                end_page |-> chapter_content[1].end_page,
                truncated |-> Len(chapter_text) > ChapterTruncate,
                body |-> IF Len(chapter_text) > ChapterTruncate
                         THEN Slice(chapter_text, 0, ChapterTruncate)
                         ELSE chapter_text]

-----------------------------------------------------------------------------
(* The corpus files the loader may find on disk, and the calls it receives *)

\* pages per document of the search corpora
MaxPages == 2

\* chapters per document of the chapter corpora
MaxChapters == 2

\* the largest max_results a caller passes
MaxResults == 2

\* the insertion order of the "pdfs" dict
DocNames == <<"guide.pdf", "api.pdf">>

PageTexts == { <<"a">>, <<"A", " ", "a">>, <<"a", " ", "b">> }

Queries == { <<>>, <<" ">>, <<"a">>, <<"A">>, <<"a", " ", "b">>, <<"b", " ", "a">>, <<"c">> }

MaxResultsArgs == (-1)..MaxResults

Titles == { <<"A", "b">>, <<"b">> }

Fragments == { <<>>, <<"b">>, <<"a", "B">>, <<"c">> }

StartPages == {0, 1, 3}

SectionLists == { <<[title |-> <<"s">>, page |-> 1]>> }

\* page numbers of a document's page list: 1..n as the extractor writes them, and lists
\* with a page missing
PageLayouts == { <<>>, <<1>>, <<1, 2, 3>>, <<1, 3>> }

TextOfPage(n) ==
    CASE n = 1 -> <<"a">>
      [] n = 2 -> <<"b">>
      [] OTHER -> <<"A", " ", "a">>

SeqsUpTo(S, n) == UNION {[1..k -> S] : k \in 0..n}

\* a document extract_text_from_pdf failed on has no "pages" and no "chapters"
FailedDoc(name) == [name |-> name, has_pages |-> FALSE, pages |-> <<>>, chapters |-> <<>>]

\* documents of up to n pages numbered 1..n, and the failed one
SearchDocs(name, n) ==
    {[name |-> name, has_pages |-> TRUE,
      pages |-> [i \in 1..Len(texts) |-> [page_number |-> i, clean_text |-> texts[i]]],
      chapters |-> <<>>] : texts \in SeqsUpTo(PageTexts, n)}
    \cup {FailedDoc(name)}

\* no document, one document, or one document followed by a second of at most one page
SearchCorpora ==
    {<<>>}
    \cup {<<d>> : d \in SearchDocs(DocNames[1], MaxPages)}
    \cup {<<d1, d2>> : d1 \in SearchDocs(DocNames[1], MaxPages),
                        d2 \in SearchDocs(DocNames[2], 1)}

Chapters == [title : Titles, start_page : StartPages, sections : SectionLists]

ChapterDocs(name) ==
    {[name |-> name, has_pages |-> TRUE,
      pages |-> [i \in 1..Len(layout) |->
                    [page_number |-> layout[i], clean_text |-> TextOfPage(layout[i])]],
      chapters |-> chapters] :
        layout \in PageLayouts, chapters \in SeqsUpTo(Chapters, MaxChapters)}

ChapterCorpora == {<<d>> : d \in ChapterDocs(DocNames[1])}

MissingFile == [exists |-> FALSE, valid |-> FALSE, data |-> <<>>]

CorruptFile == [exists |-> TRUE, valid |-> FALSE, data |-> <<>>]

JsonFile(d) == [exists |-> TRUE, valid |-> TRUE, data |-> d]

HtmlItem == [title |-> <<"a">>, content |-> <<"b">>, file |-> "index.html"]

HtmlFiles ==
    {MissingFile, JsonFile([has_content |-> TRUE, content |-> <<HtmlItem>>])}

\* what is on disk when the loader is constructed: the PDF corpus file and the HTML one
Disks ==
    {[pdf |-> f, html |-> h] :
        f \in {MissingFile, CorruptFile} \cup {JsonFile([pdfs |-> c]) : c \in SearchCorpora},
        h \in HtmlFiles}
    \cup {[pdf |-> JsonFile([pdfs |-> c]), html |-> MissingFile] : c \in ChapterCorpora}

\* the record of a call: its arguments and what it returned (none of the calls below has
\* a raise on its path: each returns a value)
NoCall ==
    [op |-> "none", query |-> <<>>, max_results |-> 0, pdf_name |-> "",
     chapter_title |-> <<>>, results |-> <<>>, chapter |-> <<>>, chapters |-> <<>>,
     text |-> <<>>]

-----------------------------------------------------------------------------
(* The state machine: a loader is constructed with empty caches, answers   *)
(* one call at a time, and the caller takes the answer.                    *)

Init ==
    /\ \E disk \in Disks :
          /\ pdf_file = disk.pdf
          /\ html_file = disk.html
    /\ _pdf_cache = None
    /\ _resource_cache = None
    /\ pc = "idle"
    /\ last = NoCall
    /\ pdf_dir = <<>>
    /\ now = 0
    /\ individual_files = {}
    /\ index_file = MissingFile
    /\ _index_cache = None
    /\ threads = <<>>
    /\ NotLaunched

\* resource_loader.search_content(query, max_results)
SearchContent ==
    /\ pc = "idle"
    /\ \E query \in Queries, max_results \in MaxResultsArgs :
          LET pdf_data == get_pdf_data(_pdf_cache, pdf_file)
              html_data == get_pymechanical_docs(_resource_cache, html_file)
          IN /\ _pdf_cache' = pdf_data
             /\ _resource_cache' = html_data
             /\ last' = [NoCall EXCEPT !.op = "search_content",
                                       !.query = query,
                                       !.max_results = max_results,
                                       !.results = search_content(pdf_data.data, html_data.data,
                                                                  query, max_results)]
    /\ pc' = "returned"
    /\ UNCHANGED <<pdf_file, html_file>>
    /\ UNCHANGED <<extractor_vars, index_vars>>

\* resource_loader.get_pdf_chapters(pdf_name)
GetPdfChapters ==
    /\ pc = "idle"
    /\ \E i \in 1..Len(DocNames) :
          LET pdf_data == get_pdf_data(_pdf_cache, pdf_file)
          IN /\ _pdf_cache' = pdf_data
             /\ last' = [NoCall EXCEPT !.op = "get_pdf_chapters",
                                       !.pdf_name = DocNames[i],
                                       !.chapters = get_pdf_chapters(pdf_data.data, DocNames[i])]
    /\ pc' = "returned"
    /\ UNCHANGED <<pdf_file, html_file, _resource_cache>>
    /\ UNCHANGED <<extractor_vars, index_vars>>

\* resource_loader.get_pdf_content_by_chapter(pdf_name, chapter_title)
GetPdfContentByChapter ==
    /\ pc = "idle"
    /\ \E i \in 1..Len(DocNames), chapter_title \in Fragments :
          LET pdf_data == get_pdf_data(_pdf_cache, pdf_file)
          IN /\ _pdf_cache' = pdf_data
             /\ last' = [NoCall EXCEPT !.op = "get_pdf_content_by_chapter",
                                       !.pdf_name = DocNames[i],
                                       !.chapter_title = chapter_title,
                                       !.chapter = get_pdf_content_by_chapter(
                                                       pdf_data.data, DocNames[i], chapter_title)]
    /\ pc' = "returned"
    /\ UNCHANGED <<pdf_file, html_file, _resource_cache>>
    /\ UNCHANGED <<extractor_vars, index_vars>>

\* the tool get_chapter_content(pdf_name, chapter_title)
GetChapterContent ==
    /\ pc = "idle"
    /\ \E i \in 1..Len(DocNames), chapter_title \in Fragments :
          LET pdf_data == get_pdf_data(_pdf_cache, pdf_file)
          IN /\ _pdf_cache' = pdf_data
             /\ last' = [NoCall EXCEPT !.op = "get_chapter_content",
                                       !.pdf_name = DocNames[i],
                                       !.chapter_title = chapter_title,
                                       !.text = <<get_chapter_content(
                                                     pdf_data.data, DocNames[i], chapter_title)>>]
    /\ pc' = "returned"
    /\ UNCHANGED <<pdf_file, html_file, _resource_cache>>
    /\ UNCHANGED <<extractor_vars, index_vars>>

\* the caller has the answer; the loader waits for the next call
Return ==
    /\ pc = "returned"
    /\ pc' = "idle"
    /\ last' = NoCall
    /\ UNCHANGED <<pdf_file, html_file, _pdf_cache, _resource_cache>>
    /\ UNCHANGED <<extractor_vars, index_vars>>

Next ==
    \/ SearchContent
    \/ GetPdfChapters
    \/ GetPdfContentByChapter
    \/ GetChapterContent
    \/ Return

Spec == Init /\ [][Next]_vars

-----------------------------------------------------------------------------
(* What the corpus on disk holds, for the statements below                 *)

DocsOnDisk == IF pdf_file.exists /\ pdf_file.valid THEN pdf_file.data.pdfs ELSE <<>>

ItemsOnDisk == IF html_file.exists /\ html_file.valid THEN html_file.data.content ELSE <<>>

Searched == last.op = "search_content"

\* a query without a non-blank character: "" and all-whitespace
Blank(query) == split(query) = <<>>

\* the pages and HTML items that contain the lowercased query, each with its place in the
\* corpus iteration (document, then page; the HTML items behind every page) and its score
PdfCandidates(query) ==
    {[rank |-> 100 * d + p, type |-> "pdf",
      source |-> DocsOnDisk[d].name, page |-> DocsOnDisk[d].pages[p].page_number,
      score |-> _calculate_relevance(DocsOnDisk[d].pages[p].clean_text, lower(query))] :
        <<d, p>> \in {dp \in UNION {{<<i, j>> : j \in 1..Len(DocsOnDisk[i].pages)} :
                                        i \in 1..Len(DocsOnDisk)} :
                         Contains(lower(DocsOnDisk[dp[1]].pages[dp[2]].clean_text),
                                  lower(query))}}

HtmlCandidates(query) ==
    {[rank |-> 10000 + i, type |-> "html", source |-> "PyMechanical Docs", page |-> 0,
      score |-> _calculate_relevance(
                    ItemsOnDisk[i].content \o <<" ">> \o ItemsOnDisk[i].title, lower(query))] :
        i \in {k \in 1..Len(ItemsOnDisk) :
                  \/ Contains(lower(ItemsOnDisk[k].content), lower(query))
                  \/ Contains(lower(ItemsOnDisk[k].title), lower(query))}}

Candidates(query) == PdfCandidates(query) \cup HtmlCandidates(query)

\* the candidate a result entry stands for
CandidateOf(entry, query) ==
    CHOOSE c \in Candidates(query) :
        c.type = entry.type /\ c.source = entry.source /\ c.page = entry.page

IsCandidate(entry, query) ==
    \E c \in Candidates(query) :
        c.type = entry.type /\ c.source = entry.source /\ c.page = entry.page

\* x is ranked before y: a higher score, or the same score and earlier in the corpus
Before(x, y) ==
    \/ ScoreLess(y.score, x.score)
    \/ (ScoreEq(x.score, y.score) /\ x.rank < y.rank)

-----------------------------------------------------------------------------
(* Search                                                                  *)

\* C1: a search with a non-empty query and max_results >= 1 returns at most max_results
\* entries.
C1_AtMostMaxResults ==
    (Searched /\ last.query # <<>> /\ last.max_results >= 1)
        => Len(last.results) <= last.max_results

\* C1 witness: more pages matched than max_results allowed, and the list was cut to it
C1_Witness ==
    /\ Searched /\ last.query # <<>> /\ last.max_results >= 1
    /\ Cardinality(Candidates(last.query)) > last.max_results
    /\ Len(last.results) = last.max_results

\* C2: the entries of a search are ordered by score, highest first; entries of equal score
\* are in corpus iteration order; and the list is a prefix of that ordering (every match
\* left out comes behind every entry returned).
C2_OrderedStablePrefix ==
    Searched =>
        LET r == last.results
            q == last.query
            kept == {CandidateOf(r[i], q) : i \in 1..Len(r)}
        IN /\ \A i \in 1..Len(r) :
                 /\ IsCandidate(r[i], q)
                 /\ ScoreEq(r[i].relevance_score, CandidateOf(r[i], q).score)
           /\ \A i, j \in 1..Len(r) :
                 i < j => Before(CandidateOf(r[i], q), CandidateOf(r[j], q))
           /\ \A c \in Candidates(q) \ kept : \A k \in kept : Before(k, c)

\* C2 witness: the sort moved a later page to the front, two entries of different
\* documents tie, and a match was cut off
C2_Witness ==
    /\ Searched /\ last.max_results >= 1
    /\ Len(last.results) >= 2
    /\ Cardinality(Candidates(last.query)) > Len(last.results)
    /\ CandidateOf(last.results[1], last.query).rank > 101
    /\ \E i, j \in 1..Len(last.results) :
          /\ i < j
          /\ ScoreEq(last.results[i].relevance_score, last.results[j].relevance_score)
          /\ last.results[i].source # last.results[j].source

\* C3: a search with an empty or whitespace-only query is rejected (InvalidQuery): it
\* returns no result entry, whatever the corpus contains.
C3_BlankQueryRejected ==
    (Searched /\ Blank(last.query)) => last.results = <<>>

-----------------------------------------------------------------------------
(* Chapters                                                                *)

GotChapter == last.op = "get_pdf_content_by_chapter"

KnownDoc(pdf_name) == \E d \in 1..Len(DocsOnDisk) : DocsOnDisk[d].name = pdf_name

TheDoc(pdf_name) ==
    DocsOnDisk[CHOOSE d \in 1..Len(DocsOnDisk) : DocsOnDisk[d].name = pdf_name]

TitleMatches(chapter, fragment) == Contains(lower(chapter.title), lower(fragment))

SomeTitleMatches(pdf_name, fragment) ==
    /\ KnownDoc(pdf_name)
    /\ \E k \in 1..Len(TheDoc(pdf_name).chapters) :
          TitleMatches(TheDoc(pdf_name).chapters[k], fragment)

\* the position of the first chapter, in chapter order, whose title contains the fragment
FirstPosition(chapters, fragment) ==
    CHOOSE k \in 1..Len(chapters) :
        /\ TitleMatches(chapters[k], fragment)
        /\ \A j \in 1..(k - 1) : ~TitleMatches(chapters[j], fragment)

\* C5: get_pdf_content_by_chapter returns the first chapter, in chapter order, whose
\* title contains the fragment without regard to case: title, start_page, sections and the
\* next chapter that bounds it are those of that position, also when several chapters
\* match or carry the same title.
C5_FirstMatchReturned ==
    (GotChapter /\ SomeTitleMatches(last.pdf_name, last.chapter_title)) =>
        LET doc == TheDoc(last.pdf_name)
            k == FirstPosition(doc.chapters, last.chapter_title)
            bounded == k < Len(doc.chapters) /\ doc.chapters[k + 1].start_page # 0
        IN /\ last.chapter # <<>>
           /\ last.chapter[1].title = doc.chapters[k].title
           /\ last.chapter[1].start_page = doc.chapters[k].start_page
           /\ last.chapter[1].sections = doc.chapters[k].sections
           /\ last.chapter[1].end_page =
                  IF bounded THEN doc.chapters[k + 1].start_page - 1 ELSE Len(doc.pages)

\* C5 witness: two chapters of the same title and different start pages both match, the
\* fragment differs from the title in case, and the first one was returned
C5_Witness ==
    /\ GotChapter /\ KnownDoc(last.pdf_name)
    /\ Len(TheDoc(last.pdf_name).chapters) = 2
    /\ TheDoc(last.pdf_name).pages # <<>>
    /\ TheDoc(last.pdf_name).chapters[1].title = TheDoc(last.pdf_name).chapters[2].title
    /\ TheDoc(last.pdf_name).chapters[1].start_page = 1
    /\ TheDoc(last.pdf_name).chapters[2].start_page = 3
    /\ last.chapter_title # <<>>
    /\ last.chapter_title # lower(last.chapter_title)
    /\ last.chapter # <<>>
    /\ last.chapter[1].start_page = 1

\* C6: the end_page of a returned chapter is the next chapter's start_page minus 1 when
\* the chapter is not the last of its document, and the document's last page number when
\* it is the last.
C6_EndPage ==
    (GotChapter /\ last.chapter # <<>> /\ TheDoc(last.pdf_name).pages # <<>>) =>
        LET doc == TheDoc(last.pdf_name)
            k == FirstPosition(doc.chapters, last.chapter_title)
        IN last.chapter[1].end_page =
               IF k < Len(doc.chapters)
               THEN doc.chapters[k + 1].start_page - 1
               ELSE doc.pages[Len(doc.pages)].page_number

\* C7: the content of a returned chapter is the clean_text of exactly the pages whose
\* number lies in [start_page, end_page] of the result, in ascending page order, joined
\* by one newline.
C7_ContentIsReportedRange ==
    (GotChapter /\ last.chapter # <<>>) =>
        LET doc == TheDoc(last.pdf_name)
            r == last.chapter[1]
            in_range == SelectSeq(doc.pages, LAMBDA p :
                            r.start_page <= p.page_number /\ p.page_number <= r.end_page)
        IN r.content = join(<<"\n">>, [i \in 1..Len(in_range) |-> in_range[i].clean_text])

\* C8: when no chapter title of a known document contains the fragment, the loader
\* returns the empty dict and the tool answers not-found with every chapter title of the
\* document, in chapter order, one "- title" line each.
C8_NotFoundListsTitles ==
    /\ (GotChapter /\ KnownDoc(last.pdf_name)
            /\ ~SomeTitleMatches(last.pdf_name, last.chapter_title))
          => last.chapter = <<>>
    /\ (last.op = "get_chapter_content" /\ KnownDoc(last.pdf_name)
            /\ ~SomeTitleMatches(last.pdf_name, last.chapter_title))
          => LET chapters == TheDoc(last.pdf_name).chapters
             IN /\ last.text[1].template = "Chapter '{}' not found in {}. Available chapters: {}"
                /\ last.text[1].pdf_name = last.pdf_name
                /\ last.text[1].chapter_title = last.chapter_title
                /\ last.text[1].body =
                       join(<<"\n">>, [i \in 1..Len(chapters) |-> <<"-", " ">> \o chapters[i].title])

\* C8 witness: the tool was asked for a fragment no title contains, in a document with two
\* chapters of different titles
C8_Witness ==
    /\ last.op = "get_chapter_content" /\ KnownDoc(last.pdf_name)
    /\ ~SomeTitleMatches(last.pdf_name, last.chapter_title)
    /\ Len(TheDoc(last.pdf_name).chapters) = 2
    /\ TheDoc(last.pdf_name).chapters[1].title # TheDoc(last.pdf_name).chapters[2].title
    /\ Len(last.text[1].body) > 0

\* C9: for a document that is not in the corpus, get_pdf_content_by_chapter returns an
\* outcome (UnknownDocument) that differs from the one it returns for a known document
\* none of whose titles contains the fragment (UnknownChapter).
C9_UnknownDocumentDistinct ==
    (GotChapter /\ ~KnownDoc(last.pdf_name)) =>
        \A d \in 1..Len(DocsOnDisk), fragment \in Fragments :
            ~SomeTitleMatches(DocsOnDisk[d].name, fragment)
                => last.chapter # get_pdf_content_by_chapter(
                                      [pdfs |-> DocsOnDisk], DocsOnDisk[d].name, fragment)

\* C10: a search with max_results < 1 fails (InvalidArgument): it returns no result list.
C10_NonPositiveMaxResultsRejected ==
    (Searched /\ last.max_results < 1) => last.results = <<>>

\* C11: for a document whose chapter list is not empty, get_pdf_content_by_chapter with the
\* empty fragment "" returns the document's first chapter.
C11_EmptyFragmentFirstChapter ==
    (GotChapter /\ last.chapter_title = <<>> /\ KnownDoc(last.pdf_name)
        /\ TheDoc(last.pdf_name).chapters # <<>>) =>
        /\ last.chapter # <<>>
        /\ last.chapter[1].title = TheDoc(last.pdf_name).chapters[1].title
        /\ last.chapter[1].start_page = TheDoc(last.pdf_name).chapters[1].start_page
        /\ last.chapter[1].sections = TheDoc(last.pdf_name).chapters[1].sections

\* C11 witness: the empty fragment was asked of a document with two chapters of different
\* titles and start pages, and the first came back
C11_Witness ==
    /\ GotChapter /\ last.chapter_title = <<>> /\ KnownDoc(last.pdf_name)
    /\ Len(TheDoc(last.pdf_name).chapters) = 2
    /\ TheDoc(last.pdf_name).chapters[1].title # TheDoc(last.pdf_name).chapters[2].title
    /\ TheDoc(last.pdf_name).chapters[1].start_page = 3
    /\ TheDoc(last.pdf_name).chapters[2].start_page = 1
    /\ last.chapter # <<>>
    /\ last.chapter[1].start_page = 3

-----------------------------------------------------------------------------
(* Load failures                                                           *)

\* the documents of the corpus file whose extraction succeeded
Served == SelectSeq(DocsOnDisk, LAMBDA d : d.has_pages)

HtmlOnDisk ==
    IF html_file.exists /\ html_file.valid THEN html_file.data ELSE EmptyHtmlData

\* C14: a load failure does not reach a query.  With a missing or unparsable corpus file,
\* or with a document entry that has no pages, every query answers as it would on the
\* corpus of the other documents: the failed document contributes no result entry, no
\* chapter list and no chapter, and the documents around it are searched and served.
C14_LoadFailureNotPropagated ==
    /\ Searched =>
          /\ \A i \in 1..Len(last.results) :
                 last.results[i].type = "pdf" =>
                     \E d \in 1..Len(Served) : Served[d].name = last.results[i].source
          /\ last.results = search_content([pdfs |-> Served], HtmlOnDisk,
                                           last.query, last.max_results)
    /\ last.op = "get_pdf_chapters" =>
          last.chapters = get_pdf_chapters([pdfs |-> Served], last.pdf_name)
    /\ GotChapter =>
          last.chapter = get_pdf_content_by_chapter([pdfs |-> Served], last.pdf_name,
                                                    last.chapter_title)

\* C14 witness: the first document of the corpus failed to extract, and a search returned
\* a page of the second
C14_Witness ==
    /\ Searched /\ Len(DocsOnDisk) = 2
    /\ ~DocsOnDisk[1].has_pages /\ DocsOnDisk[2].has_pages
    /\ \E i \in 1..Len(last.results) : last.results[i].source = DocsOnDisk[2].name

\* the pages a query touches: those whose lowercased text contains the lowercased query
\* (exact_count > 0) or one of its whitespace-separated words (word_count > 0)
WordPages(query) ==
    {<<DocsOnDisk[dp[1]].name, DocsOnDisk[dp[1]].pages[dp[2]].page_number>> :
        dp \in {x \in UNION {{<<i, j>> : j \in 1..Len(DocsOnDisk[i].pages)} :
                                 i \in 1..Len(DocsOnDisk)} :
                   LET text_lower == lower(DocsOnDisk[x[1]].pages[x[2]].clean_text)
                   IN \/ count(text_lower, lower(query)) > 0
                      \/ SumOver(text_lower, split(lower(query)), 1) > 0}}

\* C17: when max_results cuts nothing off, a search returns exactly one entry for every
\* page with exact_count > 0 or word_count > 0, carrying its document and page number, and
\* none for any other page: a page that holds a word of the query but not the whole query
\* is returned.
C17_EveryWordMatchReturned ==
    (Searched /\ last.max_results >= Cardinality(WordPages(last.query)) + Len(ItemsOnDisk)) =>
        LET pdf_results == SelectSeq(last.results, LAMBDA r : r.type = "pdf")
        IN /\ {<<pdf_results[i].source, pdf_results[i].page>> : i \in 1..Len(pdf_results)}
                  = WordPages(last.query)
           /\ Len(pdf_results) = Cardinality(WordPages(last.query))

-----------------------------------------------------------------------------
(* The extractor: AnsysPDFExtractor (scripts/extract_pdf_content.py)       *)

IsDigit(c) == c \in {"0", "1", "2", "3", "4", "5", "6", "7", "8", "9"}

RECURSIVE SpacesAt(_, _)
\* the length of the run of whitespace at the 0-based offset i
SpacesAt(text, i) ==
    IF i < Len(text) /\ IsSpace(text[i + 1]) THEN 1 + SpacesAt(text, i + 1) ELSE 0

RECURSIVE DigitsAt(_, _)
\* the length of the run of digits at the 0-based offset i
DigitsAt(text, i) ==
    IF i < Len(text) /\ IsDigit(text[i + 1]) THEN 1 + DigitsAt(text, i + 1) ELSE 0

\* r'Page \d+ of \d+' with re.IGNORECASE: the length of its match at offset i, 0 for none
PageHeaderAt(text, i) ==
    LET d1 == DigitsAt(text, i + 5)
        d2 == DigitsAt(text, i + 5 + d1 + 4)
    IN IF /\ OccursAt(lower(text), <<"p", "a", "g", "e", " ">>, i)
          /\ d1 > 0
          /\ OccursAt(text, <<" ">>, i + 5 + d1)
          /\ OccursAt(lower(text), <<"o", "f", " ">>, i + 5 + d1 + 1)
          /\ d2 > 0
       THEN 5 + d1 + 4 + d2
       ELSE 0

\* r'Release \d+\.\d+' with re.IGNORECASE at offset j
ReleaseAt(text, j) ==
    LET d1 == DigitsAt(text, j + 8)
        d2 == DigitsAt(text, j + 8 + d1 + 1)
    IN IF /\ OccursAt(lower(text), <<"r", "e", "l", "e", "a", "s", "e", " ">>, j)
          /\ d1 > 0
          /\ OccursAt(text, <<".">>, j + 8 + d1)
          /\ d2 > 0
       THEN 8 + d1 + 1 + d2
       ELSE 0

\* r'ANSYS.*?Release \d+\.\d+' with re.IGNORECASE: the lazy .*? stops at the first place a
\* release number follows, and does not cross a line break
ReleaseBannerAt(text, i) ==
    LET ends == {j \in (i + 5)..Len(text) :
                    /\ ReleaseAt(text, j) > 0
                    /\ \A k \in (i + 5)..(j - 1) : text[k + 1] # "\n"}
        first == CHOOSE j \in ends : \A k \in ends : j <= k
    IN IF OccursAt(lower(text), <<"a", "n", "s", "y", "s">>, i) /\ ends # {}
       THEN first - i + ReleaseAt(text, first)
       ELSE 0

\* r'\n\s*\n\s*\n': a line break, and the whitespace behind it up to its last line break,
\* when that run holds three line breaks or more
BlankLinesAt(text, i) ==
    LET run == SpacesAt(text, i)
        breaks == {k \in i..(i + run - 1) : text[k + 1] = "\n"}
        final == CHOOSE k \in breaks : \A m \in breaks : k >= m
    IN IF OccursAt(text, <<"\n">>, i) /\ Cardinality(breaks) >= 3
       THEN final - i + 1
       ELSE 0

MatchLength(pattern, text, i) ==
    CASE pattern = "whitespace" -> SpacesAt(text, i)
      [] pattern = "page_header" -> PageHeaderAt(text, i)
      [] pattern = "release_banner" -> ReleaseBannerAt(text, i)
      [] pattern = "blank_lines" -> BlankLinesAt(text, i)

RECURSIVE Sub(_, _, _, _)
\* re.sub(pattern, repl, text): the matches from left to right, none overlapping another
Sub(pattern, repl, text, i) ==
    IF i >= Len(text) THEN <<>>
    ELSE IF MatchLength(pattern, text, i) > 0
         THEN repl \o Sub(pattern, repl, text, i + MatchLength(pattern, text, i))
         ELSE <<text[i + 1]>> \o Sub(pattern, repl, text, i + 1)

_clean_text(text) ==
    LET collapsed == Sub("whitespace", <<" ">>, text, 0)
        no_header == Sub("page_header", <<>>, collapsed, 0)
        no_banner == Sub("release_banner", <<>>, no_header, 0)
        no_blank == Sub("blank_lines", <<"\n", "\n">>, no_banner, 0)
    IN strip(no_blank)

\* _process_outline: the [level, title, page] items of doc.get_toc()
_process_outline(toc) ==
    LET kept == SelectSeq(toc, LAMBDA item : Len(item) >= 3)
    IN [i \in 1..Len(kept) |->
            [level |-> kept[i][1], title |-> kept[i][2], page |-> kept[i][3]]]

\* `if current_chapter: chapters.append(current_chapter)`; <<>> is None
AppendCurrent(chapters, current_chapter) ==
    IF current_chapter # <<>> THEN Append(chapters, current_chapter[1]) ELSE chapters

RECURSIVE ChaptersFrom(_, _, _, _)
\* the loop of _extract_chapters over the outline, from its i-th item on
ChaptersFrom(outline, i, current_chapter, chapters) ==
    IF i > Len(outline) THEN AppendCurrent(chapters, current_chapter)
    ELSE IF outline[i].level = 1
         THEN ChaptersFrom(outline, i + 1,
                           <<[title |-> outline[i].title, start_page |-> outline[i].page,
                              sections |-> <<>>]>>,
                           AppendCurrent(chapters, current_chapter))
    ELSE IF outline[i].level = 2 /\ current_chapter # <<>>
         THEN ChaptersFrom(outline, i + 1,
                           <<[current_chapter[1] EXCEPT !.sections =
                                 Append(@, [title |-> outline[i].title,
                                            page |-> outline[i].page])]>>,
                           chapters)
    ELSE ChaptersFrom(outline, i + 1, current_chapter, chapters)

\* a faulty _extract_chapters that has lost the tests on the level and makes a chapter of
\* every outline entry
_extract_chapters_flat(outline) ==
    [i \in 1..Len(outline) |->
        [title |-> outline[i].title, start_page |-> outline[i].page, sections |-> <<>>]]

_extract_chapters(outline) ==
    IF outline = <<>> THEN <<>> ELSE ChaptersFrom(outline, 1, <<>>, <<>>)

\* extract_text_from_pdf.  A key the returned dict lacks is held with the default its
\* readers pass to .get(); has_pages and has_error say whether "pages" and "error" are
\* keys.  A get_toc() that raises leaves the outline empty, like an empty toc.
extract_text_from_pdf(pdf, date) ==
    IF ~pdf.opens
    THEN [name |-> pdf.name, has_error |-> TRUE, extracted_date |-> date,
          has_pages |-> FALSE, total_pages |-> 0, pages |-> <<>>, outline |-> <<>>,
          chapters |-> <<>>]
    ELSE LET outline == _process_outline(pdf.toc)
         IN [name |-> pdf.name, has_error |-> FALSE, extracted_date |-> date,
             has_pages |-> TRUE, total_pages |-> Len(pdf.texts),
             pages |-> [page_num \in 1..Len(pdf.texts) |->
                           [page_number |-> page_num,
                            text |-> pdf.texts[page_num],
                            clean_text |-> _clean_text(pdf.texts[page_num]),
                            word_count |-> Len(split(pdf.texts[page_num]))]],
             outline |-> outline,
             chapters |-> _extract_chapters(outline)]

\* d[key] = value on a dict held in insertion order: a key already there keeps its place
DictSet(items, doc) ==
    IF \E i \in 1..Len(items) : items[i].name = doc.name
    THEN [i \in 1..Len(items) |-> IF items[i].name = doc.name THEN doc ELSE items[i]]
    ELSE Append(items, doc)

RECURSIVE ProcessFrom(_, _, _, _)
\* the loop of process_all_pdfs over pdf_files, from its i-th file on
ProcessFrom(pdf_files, i, date, results) ==
    IF i > Len(pdf_files) THEN results
    ELSE LET extracted_content == extract_text_from_pdf(pdf_files[i], date)
             counted ==
                 IF ~extracted_content.has_error
                 THEN [results EXCEPT !.files_processed = @ + 1,
                                      !.total_pages = @ + extracted_content.total_pages]
                 ELSE [results EXCEPT !.files_failed = @ + 1]
         IN ProcessFrom(pdf_files, i + 1, date,
                        [counted EXCEPT !.pdfs = DictSet(@, extracted_content)])

\* process_all_pdfs: the results dict it builds and returns
process_all_pdfs(pdf_files, date) ==
    ProcessFrom(pdf_files, 1, date,
                [processing_date |-> date, files_processed |-> 0, files_failed |-> 0,
                 total_pages |-> 0, pdfs |-> <<>>])

\* a faulty write, open(combined_file, 'a'), that puts a second JSON document behind the
\* one already in the file: json.load rejects the file from then on
AppendJson(file, data) ==
    IF file.exists THEN [exists |-> TRUE, valid |-> FALSE, data |-> <<>>]
    ELSE [exists |-> TRUE, valid |-> TRUE, data |-> data]

\* open(file, 'w') and json.dump(data, f): the file holds data and nothing of what it held
\* (the dicts written have string keys, and strings, integers and lists as values, which
\* json.load gives back as they were)
WriteJson(file, data) == [exists |-> TRUE, valid |-> TRUE, data |-> data]

\* the <stem>_extracted.json files after a run: one per document extracted without error
WriteIndividual(files, pdfs) ==
    {f \in files : \A i \in 1..Len(pdfs) : pdfs[i].has_error \/ pdfs[i].name # f.name}
    \cup {[name |-> pdfs[i].name, data |-> pdfs[i]] :
             i \in {k \in 1..Len(pdfs) : ~pdfs[k].has_error}}

-----------------------------------------------------------------------------
(* The PDF directories the extractor may find, and its runs                *)

\* runs of the extractor
MaxRuns == 2

\* items of a PDF's table of contents
MaxOutline == 3

RawTexts ==
    { <<"a">>,
      <<" ", "A", " ", "a", "\n">>,
      <<"a", "\n", "\n", "b">>,
      <<"a", " ", "P", "a", "g", "e", " ", "1", " ", "o", "f", " ", "2", " ", "b">> }

TocPages == {1, 3}

\* get_toc() items: chapters, a section, and an entry of the third level
TocItems ==
    {<<1, title, page>> : title \in Titles, page \in TocPages}
    \cup {<<2, <<"s">>, 1>>, <<3, <<"s">>, 1>>}

\* a PDF file of the directory: whether fitz can read it, the text of its pages, its toc
Pdf(name, texts, toc) == [name |-> name, opens |-> TRUE, texts |-> texts, toc |-> toc]

Unreadable(name) == [name |-> name, opens |-> FALSE, texts |-> <<>>, toc |-> <<>>]

TextPdfs(name, n) ==
    {Pdf(name, texts, <<>>) : texts \in SeqsUpTo(RawTexts, n)} \cup {Unreadable(name)}

OutlinePdfs(name) ==
    {Pdf(name, <<TextOfPage(1), TextOfPage(2), TextOfPage(3)>>, toc) :
        toc \in SeqsUpTo(TocItems, MaxOutline)}

\* no PDF, one PDF, one PDF and a second of one page or unreadable, one PDF with a toc
PdfDirs ==
    {<<>>}
    \cup {<<p>> : p \in TextPdfs(DocNames[1], MaxPages)}
    \cup {<<p1, p2>> : p1 \in TextPdfs(DocNames[1], MaxPages),
                        p2 \in {Pdf(DocNames[2], <<<<"a">>>>, <<>>), Unreadable(DocNames[2])}}
    \cup {<<p>> : p \in OutlinePdfs(DocNames[1])}

\* the extractor has not run yet and no loader has read anything
InitExtract ==
    /\ pdf_dir \in PdfDirs
    /\ now = 0
    /\ individual_files = {}
    /\ pdf_file = MissingFile
    /\ html_file = MissingFile
    /\ _pdf_cache = None
    /\ _resource_cache = None
    /\ pc = "idle"
    /\ last = NoCall
    /\ index_file = MissingFile
    /\ _index_cache = None
    /\ threads = <<>>
    /\ NotLaunched

\* extractor.process_all_pdfs(), run from main()
ProcessAllPdfs ==
    /\ pc = "idle"
    /\ now < MaxRuns
    /\ LET results == process_all_pdfs(pdf_dir, now)
       IN /\ pdf_file' = WriteJson(pdf_file, results)
          /\ individual_files' = WriteIndividual(individual_files, results.pdfs)
          /\ last' = [NoCall EXCEPT !.op = "process_all_pdfs", !.results = <<results>>]
    /\ now' = now + 1
    /\ pc' = "returned"
    /\ UNCHANGED <<pdf_dir, html_file, _pdf_cache, _resource_cache, index_vars>>

\* a server process starts: the module creates resource_loader = AnsysResourceLoader()
Construct ==
    /\ pc = "idle"
    /\ ~_pdf_cache.is_none
    /\ _pdf_cache' = None
    /\ _resource_cache' = None
    /\ _index_cache' = None
    /\ UNCHANGED <<pdf_file, html_file, pc, last, extractor_vars, index_file, threads,
                   launcher_vars>>

NextExtract ==
    \/ ProcessAllPdfs
    \/ Construct
    \/ GetPdfChapters
    \/ GetPdfContentByChapter
    \/ Return

SpecExtract == InitExtract /\ [][NextExtract]_vars

-----------------------------------------------------------------------------
(* Loading                                                                 *)

\* the corpus a loader constructed now would hold after its first get_pdf_data
Loaded(file) == OrEmpty(_load_json_file(file), EmptyPdfData)

\* two corpora answer every search and every chapter request alike
QueryEquivalent(c1, c2) ==
    /\ \A query \in Queries, max_results \in MaxResultsArgs :
          search_content(c1, EmptyHtmlData, query, max_results)
              = search_content(c2, EmptyHtmlData, query, max_results)
    /\ \A i \in 1..Len(DocNames), fragment \in Fragments :
          /\ get_pdf_chapters(c1, DocNames[i]) = get_pdf_chapters(c2, DocNames[i])
          /\ get_pdf_content_by_chapter(c1, DocNames[i], fragment)
                 = get_pdf_content_by_chapter(c2, DocNames[i], fragment)

NoDuplicateDocument(pdfs) ==
    \A i, j \in 1..Len(pdfs) : pdfs[i].name = pdfs[j].name => i = j

\* C12: loading is idempotent.  A run of the extractor over a directory it has already
\* processed leaves a corpus file from which a loader answers every search and every
\* chapter request as from the file of the run before: each document is there once, with
\* its pages once.
C12_LoadIdempotent ==
    [][(last'.op = "process_all_pdfs" /\ pdf_file.exists) =>
           /\ QueryEquivalent(Loaded(pdf_file), Loaded(pdf_file'))
           /\ NoDuplicateDocument(Loaded(pdf_file').pdfs)
           /\ Len(Loaded(pdf_file').pdfs) = Len(pdf_dir)
           /\ \A i \in 1..Len(pdf_dir) :
                 Len(Loaded(pdf_file').pdfs[i].pages) = Len(pdf_dir[i].texts)]_vars

\* C12 witness: the extractor has run a second time over a directory of two PDFs, the first
\* of two pages, and the file on disk is the one of the second run
C12_Witness ==
    /\ last.op = "process_all_pdfs"
    /\ now = 2
    /\ Len(pdf_dir) = 2
    /\ pdf_file.exists /\ pdf_file.valid
    /\ pdf_file.data.processing_date = 1
    /\ Len(pdf_file.data.pdfs) = 2
    /\ Len(pdf_file.data.pdfs[1].pages) = 2

\* the positions of the level-1 entries of a toc, in ascending order
LevelOnes(toc) ==
    LET at == {i \in 1..Len(toc) : toc[i][1] = 1}
    IN [k \in 1..Cardinality(at) |->
            CHOOSE i \in at : Cardinality({j \in at : j < i}) = k - 1]

\* the level-2 entries of a toc strictly between two positions, as sections
SectionsBetween(toc, from, to) ==
    LET between == SelectSeq([i \in 1..Len(toc) |-> <<i, toc[i]>>],
                             LAMBDA e : from < e[1] /\ e[1] < to /\ e[2][1] = 2)
    IN [i \in 1..Len(between) |-> [title |-> between[i][2][2], page |-> between[i][2][3]]]

\* C29: the chapters of an extracted document are its level-1 toc entries, in toc order,
\* each with the entry's title and page and with the level-2 entries that stand between it
\* and the next level-1 entry as its sections; nothing else of the toc is kept, and a
\* document without a toc has no chapter.
C29_ChaptersFollowOutline ==
    last.op = "process_all_pdfs" =>
        \A d \in 1..Len(pdf_dir) :
            pdf_dir[d].opens =>
                LET toc == pdf_dir[d].toc
                    ones == LevelOnes(toc)
                    chapters == DocNamed(pdf_file.data.pdfs, pdf_dir[d].name).chapters
                IN /\ Len(chapters) = Len(ones)
                   /\ \A k \in 1..Len(ones) :
                         /\ chapters[k].title = toc[ones[k]][2]
                         /\ chapters[k].start_page = toc[ones[k]][3]
                         /\ chapters[k].sections =
                                SectionsBetween(toc, ones[k],
                                                IF k < Len(ones) THEN ones[k + 1]
                                                ELSE Len(toc) + 1)

\* C29 witness: a toc of two chapters and a section behind the second was extracted: the
\* section went to the second chapter
C29_Witness ==
    /\ last.op = "process_all_pdfs"
    /\ Len(pdf_dir) = 1 /\ pdf_dir[1].opens
    /\ Len(pdf_dir[1].toc) = 3
    /\ pdf_dir[1].toc[1][1] = 1 /\ pdf_dir[1].toc[2][1] = 1 /\ pdf_dir[1].toc[3][1] = 2
    /\ Len(pdf_file.data.pdfs[1].chapters) = 2
    /\ pdf_file.data.pdfs[1].chapters[1].sections = <<>>
    /\ Len(pdf_file.data.pdfs[1].chapters[2].sections) = 1

C20_ChaptersAscendingDistinct ==
    ~_pdf_cache.is_none =>
        \A d \in 1..Len(_pdf_cache.data.pdfs) :
            LET chapters == _pdf_cache.data.pdfs[d].chapters
            IN \A i, j \in 1..Len(chapters) :
                   i < j => chapters[i].start_page < chapters[j].start_page

\* the last page number of the loaded document pdf_name, 0 when it has no page
LastPage(pdf_name) ==
    LET pages == DocNamed(_pdf_cache.data.pdfs, pdf_name).pages
    IN IF pages = <<>> THEN 0 ELSE pages[Len(pages)].page_number

\* C21: no chapter of a loaded document, and no chapter returned by
\* get_pdf_content_by_chapter, has start_page greater than the document's last page
\* number or end_page smaller than start_page.
C21_ChapterRangesValid ==
    ~_pdf_cache.is_none =>
        /\ \A d \in 1..Len(_pdf_cache.data.pdfs) :
               LET doc == _pdf_cache.data.pdfs[d]
               IN \A c \in 1..Len(doc.chapters) :
                      doc.chapters[c].start_page <= LastPage(doc.name)
        /\ (last.op = "get_pdf_content_by_chapter" /\ last.chapter # <<>>) =>
               /\ last.chapter[1].start_page <= LastPage(last.pdf_name)
               /\ last.chapter[1].end_page >= last.chapter[1].start_page

\* C22: every successfully loaded document has a non-empty page list whose page numbers
\* are exactly 1, 2, ..., total_pages in list order.
C22_PagesNumberedFromOne ==
    ~_pdf_cache.is_none =>
        \A d \in 1..Len(_pdf_cache.data.pdfs) :
            LET doc == _pdf_cache.data.pdfs[d]
            IN doc.has_pages =>
                   /\ doc.pages # <<>>
                   /\ Len(doc.pages) = doc.total_pages
                   /\ \A i \in 1..Len(doc.pages) : doc.pages[i].page_number = i

\* no two whitespace characters in a row, none at either end
WhitespaceCollapsed(text) ==
    /\ \A i \in 1..(Len(text) - 1) : ~(IsSpace(text[i]) /\ IsSpace(text[i + 1]))
    /\ text # <<>> => ~IsSpace(text[1]) /\ ~IsSpace(text[Len(text)])

\* C23: the clean_text of every page is whitespace-collapsed, without a run of two or more
\* whitespace characters and without leading or trailing whitespace, and is not longer
\* than the page's raw text.
C23_CleanTextCollapsed ==
    ~_pdf_cache.is_none =>
        \A d \in 1..Len(_pdf_cache.data.pdfs) :
            LET pages == _pdf_cache.data.pdfs[d].pages
            IN \A i \in 1..Len(pages) :
                   /\ WhitespaceCollapsed(pages[i].clean_text)
                   /\ Len(pages[i].clean_text) <= Len(pages[i].text)

-----------------------------------------------------------------------------
(* Code examples and API references                                        *)

\* d.get(key, default)
Get(d, key, default) == IF key \in DOMAIN d THEN d[key] ELSE default

\* an entry that has no "source" key yet
NoSource == [present |-> FALSE, value |-> ""]

\* `entry["source"] = pdf_name` for each entry of a document's list: the entries are the
\* dicts of the cached corpus, so the assignment is made in the cache
WithSource(entries, pdf_name) ==
    [i \in 1..Len(entries) |->
        [entries[i] EXCEPT !.source = [present |-> TRUE, value |-> pdf_name]]]

\* the "pdfs" of the cache after the loop over them has run for the list named key
SourcedPdfs(pdfs, key) ==
    [d \in 1..Len(pdfs) |->
        IF key \in DOMAIN pdfs[d]
        THEN [pdfs[d] EXCEPT ![key] = WithSource(@, pdfs[d].name)]
        ELSE pdfs[d]]

RECURSIVE Collect(_, _)
\* the entries appended, document by document
Collect(pdfs, key) ==
    IF pdfs = <<>> THEN <<>>
    ELSE Get(Head(pdfs), key, <<>>) \o Collect(Tail(pdfs), key)

\* get_code_examples and get_api_references: the list returned
SourcedEntries(pdf_data, key, source) ==
    IF source \in {"all", "pdf"} THEN Collect(SourcedPdfs(pdf_data.pdfs, key), key) ELSE <<>>

\* get_code_examples and get_api_references: self._pdf_cache after the call; another
\* source than "all" and "pdf" does not even call get_pdf_data
CacheAfterSourcing(cache, file, key, source) ==
    IF source \in {"all", "pdf"}
    THEN Some([get_pdf_data(cache, file).data EXCEPT !.pdfs = SourcedPdfs(@, key)])
    ELSE cache

get_code_examples(pdf_data, source) == SourcedEntries(pdf_data, "code_examples", source)

get_api_references(pdf_data, source) == SourcedEntries(pdf_data, "api_references", source)

Sources == {"all", "pdf", "html"}

\* \w over the characters of the page texts
IsWord(c) == ~IsSpace(c) /\ c \notin {".", "(", ")", "@"}

RECURSIVE WordsAt(_, _)
\* the length of the run of word characters at the 0-based offset i
WordsAt(text, i) ==
    IF i < Len(text) /\ IsWord(text[i + 1]) THEN 1 + WordsAt(text, i + 1) ELSE 0

\* r'class\s+(\w+)\s*\(' and r'def\s+(\w+)\s*\(' with re.IGNORECASE: the length of the
\* match at offset i, 0 for none
SignatureAt(text, keyword, i) ==
    LET name == i + Len(keyword) + SpacesAt(text, i + Len(keyword))
        paren == name + WordsAt(text, name) + SpacesAt(text, name + WordsAt(text, name))
    IN IF /\ OccursAt(lower(text), keyword, i)
          /\ SpacesAt(text, i + Len(keyword)) > 0
          /\ WordsAt(text, name) > 0
          /\ OccursAt(text, <<"(">>, paren)
       THEN paren + 1 - i
       ELSE 0

\* r'(\w+\.\w+\.\w+)': the length of the match at offset i, 0 for none
DottedAt(text, i) ==
    LET w1 == WordsAt(text, i)
        w2 == WordsAt(text, i + w1 + 1)
        w3 == WordsAt(text, i + w1 + 1 + w2 + 1)
    IN IF /\ w1 > 0 /\ OccursAt(text, <<".">>, i + w1)
          /\ w2 > 0 /\ OccursAt(text, <<".">>, i + w1 + 1 + w2)
          /\ w3 > 0
       THEN w1 + 1 + w2 + 1 + w3
       ELSE 0

\* r'@\w+\.(\w+)': the length of the match at offset i, 0 for none
DecoratorAt(text, i) ==
    LET w1 == WordsAt(text, i + 1)
        w2 == WordsAt(text, i + 1 + w1 + 1)
    IN IF /\ OccursAt(text, <<"@">>, i)
          /\ w1 > 0 /\ OccursAt(text, <<".">>, i + 1 + w1)
          /\ w2 > 0
       THEN 1 + w1 + 1 + w2
       ELSE 0

\* the patterns of _extract_api_references in list order
ApiPatterns == <<"class", "def", "dotted", "decorator">>

ApiPatternAt(pattern, text, i) ==
    CASE pattern = "class" -> SignatureAt(text, <<"c", "l", "a", "s", "s">>, i)
      [] pattern = "def" -> SignatureAt(text, <<"d", "e", "f">>, i)
      [] pattern = "dotted" -> DottedAt(text, i)
      [] pattern = "decorator" -> DecoratorAt(text, i)

RECURSIVE FindIter(_, _, _)
\* re.finditer(pattern, text): the matches from left to right, none overlapping another
FindIter(pattern, text, i) ==
    IF i >= Len(text) THEN <<>>
    ELSE IF ApiPatternAt(pattern, text, i) > 0
         THEN <<[start |-> i, end |-> i + ApiPatternAt(pattern, text, i)]>>
                  \o FindIter(pattern, text, i + ApiPatternAt(pattern, text, i))
         ELSE FindIter(pattern, text, i + 1)

\* _get_surrounding_context(text, start, end) with its context_size of 200
_get_surrounding_context(text, start, end) ==
    strip(Slice(text, Max(0, start - 200), Min(Len(text), end + 200)))

RECURSIVE Concat(_)
\* the lists of lists, appended one after the other
Concat(lists) == IF lists = <<>> THEN <<>> ELSE Head(lists) \o Concat(Tail(lists))

\* _extract_api_references: page by page, pattern by pattern, match by match; no entry
\* has a "source" yet
_extract_api_references(pages) ==
    Concat([p \in 1..Len(pages) |->
        Concat([k \in 1..Len(ApiPatterns) |->
            LET text == pages[p].clean_text
                matches == FindIter(ApiPatterns[k], text, 0)
            IN [m \in 1..Len(matches) |->
                   [page |-> pages[p].page_number,
                    reference |-> Slice(text, matches[m].start, matches[m].end),
                    type |-> "api",
                    context |-> _get_surrounding_context(text, matches[m].start,
                                                         matches[m].end),
                    source |-> NoSource]]])])

\* the text of every page of the stored documents: a dotted name
ReferenceText == <<"a", ".", "b", ".", "a">>

\* a document of n pages, each holding one dotted name: one API reference per page, and
\* no code example (the code patterns need a line break, and clean_text has none)
StoreDoc(name, n) ==
    LET pages == [i \in 1..n |-> [page_number |-> i, clean_text |-> ReferenceText]]
    IN [name |-> name, has_pages |-> TRUE, total_pages |-> n,
        pages |-> pages,
        chapters |-> IF n = 0 THEN <<>>
                     ELSE <<[title |-> <<"A", "b">>, start_page |-> 1, sections |-> <<>>]>>,
        code_examples |-> <<>>,
        api_references |-> _extract_api_references(pages)]

StoreCorpora ==
    {<<>>, <<FailedDoc(DocNames[1])>>}
    \cup {<<StoreDoc(DocNames[1], n)>> : n \in 0..MaxPages}
    \cup {<<StoreDoc(DocNames[1], n), d2>> :
             n \in 0..MaxPages, d2 \in {StoreDoc(DocNames[2], 1), FailedDoc(DocNames[2])}}

StoreDisks ==
    {[pdf |-> f, html |-> h] :
        f \in {MissingFile, CorruptFile} \cup {JsonFile([pdfs |-> c]) : c \in StoreCorpora},
        h \in HtmlFiles}

InitStore ==
    /\ \E disk \in StoreDisks :
          /\ pdf_file = disk.pdf
          /\ html_file = disk.html
    /\ _pdf_cache = None
    /\ _resource_cache = None
    /\ pc = "idle"
    /\ last = NoCall
    /\ pdf_dir = <<>>
    /\ now = 0
    /\ individual_files = {}
    /\ index_file = MissingFile
    /\ _index_cache = None
    /\ threads = <<>>
    /\ NotLaunched

\* resource_loader.get_code_examples(source)
GetCodeExamples ==
    /\ pc = "idle"
    /\ \E source \in Sources :
          /\ _pdf_cache' = CacheAfterSourcing(_pdf_cache, pdf_file, "code_examples", source)
          /\ last' = [op |-> "get_code_examples", source |-> source,
                      results |-> get_code_examples(
                                      get_pdf_data(_pdf_cache, pdf_file).data, source)]
    /\ pc' = "returned"
    /\ UNCHANGED <<pdf_file, html_file, _resource_cache, extractor_vars, index_vars>>

\* resource_loader.get_api_references(source)
GetApiReferences ==
    /\ pc = "idle"
    /\ \E source \in Sources :
          /\ _pdf_cache' = CacheAfterSourcing(_pdf_cache, pdf_file, "api_references", source)
          /\ last' = [op |-> "get_api_references", source |-> source,
                      results |-> get_api_references(
                                      get_pdf_data(_pdf_cache, pdf_file).data, source)]
    /\ pc' = "returned"
    /\ UNCHANGED <<pdf_file, html_file, _resource_cache, extractor_vars, index_vars>>

NextStore ==
    \/ SearchContent
    \/ GetPdfChapters
    \/ GetPdfContentByChapter
    \/ GetChapterContent
    \/ GetCodeExamples
    \/ GetApiReferences
    \/ Return

SpecStore == InitStore /\ [][NextStore]_vars

\* C24: the API references get_api_references serves for one document hold no two
\* entries with the same reference string.
C24_ReferencesDistinctPerDocument ==
    last.op = "get_api_references" =>
        \A i, j \in 1..Len(last.results) :
            (i < j /\ last.results[i].source = last.results[j].source) =>
                last.results[i].reference # last.results[j].reference

\* C13: no query changes the corpus store: after any sequence of searches, chapter
\* requests, chapter lists, code-example and API-reference queries, the cached corpus is
\* what get_pdf_data loaded from the file.
C13_QueriesLeaveStoreAlone ==
    ~_pdf_cache.is_none => _pdf_cache.data = Loaded(pdf_file)

-----------------------------------------------------------------------------
(* Concurrent callers of the module-level loader.  The loader has no lock:  *)
(* a caller runs a method statement by statement, and between two of its   *)
(* statements another caller may run its own.  A caller holds a reference  *)
(* to the corpus object it got from get_pdf_data; a second first-time load *)
(* replaces self._pdf_cache by a new object and leaves the old one to the  *)
(* callers that hold it.                                                   *)

Callers == {1, 2}

IdleCaller == [pc |-> "idle", op |-> "none", holds |-> "none", orphan |-> <<>>,
               k |-> 1, out |-> <<>>]

\* the (document, entry) positions the loop of get_api_references visits, in order
RECURSIVE EntryPositions(_, _)
EntryPositions(pdfs, d) ==
    IF d > Len(pdfs) THEN <<>>
    ELSE [r \in 1..Len(Get(pdfs[d], "api_references", <<>>)) |-> <<d, r>>]
             \o EntryPositions(pdfs, d + 1)

\* the corpus object a caller holds
HeldBy(t) == IF threads[t].holds = "orphan" THEN threads[t].orphan ELSE _pdf_cache.data

\* ref["source"] = pdf_name on the entry at one position of a corpus object
MarkAt(corpus, pos) ==
    [corpus EXCEPT !.pdfs[pos[1]].api_references[pos[2]].source =
                       [present |-> TRUE, value |-> corpus.pdfs[pos[1]].name]]

InitConcurrent ==
    /\ pdf_file \in {MissingFile} \cup {JsonFile([pdfs |-> c]) : c \in StoreCorpora}
    /\ html_file = MissingFile
    /\ _pdf_cache = None
    /\ _resource_cache = None
    /\ pc = "idle"
    /\ last = NoCall
    /\ pdf_dir = <<>>
    /\ now = 0
    /\ individual_files = {}
    /\ index_file = MissingFile
    /\ _index_cache = None
    /\ threads = [t \in Callers |-> IdleCaller]
    /\ NotLaunched

Untouched == <<pdf_file, html_file, _resource_cache, pc, last, extractor_vars,
               index_file, _index_cache, launcher_vars>>

\* a caller enters get_api_references() or get_pdf_chapters(pdf_name)
Call(t) ==
    /\ threads[t].pc = "idle"
    /\ \E op \in {"get_api_references", "get_pdf_chapters"} :
          threads' = [threads EXCEPT ![t] = [IdleCaller EXCEPT !.pc = "test", !.op = op]]
    /\ UNCHANGED <<_pdf_cache, Untouched>>

\* get_pdf_data: `if self._pdf_cache is None`
TestCache(t) ==
    /\ threads[t].pc = "test"
    /\ threads' = [threads EXCEPT ![t].pc = IF _pdf_cache.is_none THEN "load" ELSE "take"]
    /\ UNCHANGED <<_pdf_cache, Untouched>>

\* get_pdf_data: `self._pdf_cache = self._load_json_file(pdf_file) or {}`, a new object
LoadCache(t) ==
    /\ threads[t].pc = "load"
    /\ _pdf_cache' = Some(OrEmpty(_load_json_file(pdf_file), EmptyPdfData))
    /\ threads' = [u \in Callers |->
                      IF u = t THEN [threads[u] EXCEPT !.pc = "take"]
                      ELSE IF threads[u].holds = "store"
                           THEN [threads[u] EXCEPT !.holds = "orphan",
                                                   !.orphan = _pdf_cache.data]
                           ELSE threads[u]]
    /\ UNCHANGED Untouched

\* get_pdf_data: `return self._pdf_cache`
TakeCache(t) ==
    /\ threads[t].pc = "take"
    /\ threads' = [threads EXCEPT ![t].pc = "body", ![t].holds = "store"]
    /\ UNCHANGED <<_pdf_cache, Untouched>>

\* get_api_references: one turn of `ref["source"] = pdf_name; references.append(ref)`
MarkReference(t) ==
    /\ threads[t].pc = "body"
    /\ threads[t].op = "get_api_references"
    /\ threads[t].k <= Len(EntryPositions(HeldBy(t).pdfs, 1))
    /\ LET pos == EntryPositions(HeldBy(t).pdfs, 1)[threads[t].k]
           marked == MarkAt(HeldBy(t), pos)
           entry == marked.pdfs[pos[1]].api_references[pos[2]]
       IN IF threads[t].holds = "orphan"
          THEN /\ threads' = [threads EXCEPT ![t].orphan = marked,
                                             ![t].k = @ + 1,
                                             ![t].out = Append(@, entry)]
               /\ UNCHANGED _pdf_cache
          ELSE /\ threads' = [threads EXCEPT ![t].k = @ + 1,
                                             ![t].out = Append(@, entry)]
               /\ _pdf_cache' = Some(marked)
    /\ UNCHANGED Untouched

\* get_api_references: the loops are through, `return references`
ReturnReferences(t) ==
    /\ threads[t].pc = "body"
    /\ threads[t].op = "get_api_references"
    /\ threads[t].k > Len(EntryPositions(HeldBy(t).pdfs, 1))
    /\ threads' = [threads EXCEPT ![t].pc = "done"]
    /\ UNCHANGED <<_pdf_cache, Untouched>>

\* get_pdf_chapters: `return pdf_data.get("pdfs", {}).get(pdf_name, {}).get("chapters", [])`
ReturnChapters(t) ==
    /\ threads[t].pc = "body"
    /\ threads[t].op = "get_pdf_chapters"
    /\ threads' = [threads EXCEPT ![t].pc = "done",
                                  ![t].out = get_pdf_chapters(HeldBy(t), DocNames[1])]
    /\ UNCHANGED <<_pdf_cache, Untouched>>

\* the caller has its answer
Leave(t) ==
    /\ threads[t].pc = "done"
    /\ threads' = [threads EXCEPT ![t] = IdleCaller]
    /\ UNCHANGED <<_pdf_cache, Untouched>>

NextConcurrent ==
    \E t \in Callers :
        \/ Call(t)
        \/ TestCache(t)
        \/ LoadCache(t)
        \/ TakeCache(t)
        \/ MarkReference(t)
        \/ ReturnReferences(t)
        \/ ReturnChapters(t)
        \/ Leave(t)

SpecConcurrent == InitConcurrent /\ [][NextConcurrent]_vars

\* caller t is in the loop of get_api_references with an entry still to write
Writing(t) ==
    /\ threads[t].pc = "body"
    /\ threads[t].op = "get_api_references"
    /\ threads[t].k <= Len(EntryPositions(HeldBy(t).pdfs, 1))

\* caller u is inside a query, with the store in its hands
Reading(u) == threads[u].pc = "body" /\ threads[u].holds = "store"

\* a list of the corpus has entries with a source and entries without one
PartlyUpdated(corpus) ==
    \E d \in 1..Len(corpus.pdfs) :
        LET refs == Get(corpus.pdfs[d], "api_references", <<>>)
        IN \E i, j \in 1..Len(refs) : refs[i].source.present /\ ~refs[j].source.present

\* C16: under concurrent callers no write to the store runs while another query reads it,
\* and a query never has a partly updated corpus in its hands.
C16_NoWriteDuringRead ==
    \A t, u \in Callers :
        t # u =>
            /\ ~(Writing(t) /\ threads[t].holds = "store" /\ Reading(u))
            /\ (Reading(u) /\ threads[u].op = "get_pdf_chapters")
                   => ~PartlyUpdated(HeldBy(u))

-----------------------------------------------------------------------------
(* The resources: get_resource_content and the eight generators.  A text   *)
(* is the sequence of its parts: the template of the part and the values   *)
(* it interpolates.  A subscript of a key the dict lacks raises KeyError.  *)

Str(parts) == [raised |-> FALSE, type |-> "str", parts |-> parts]

KeyError == [raised |-> TRUE, type |-> "KeyError", parts |-> <<>>]

Part(template, values) == [part |-> template, values |-> values]

\* a faulty guard, lost: the generators go on to pdf_data["pdfs"][pdf_name] whatever the
\* corpus holds
AlwaysHasDoc(pdf_data, pdf_name) == TRUE

\* `pdf_name in pdf_data.get("pdfs", {})`
HasDoc(pdf_data, pdf_name) ==
    \E i \in 1..Len(pdf_data.pdfs) : pdf_data.pdfs[i].name = pdf_name

\* pdf_data["pdfs"][pdf_name]: <<>> stands for the KeyError of a missing key
Subscript(pdf_data, pdf_name) ==
    SelectSeq(pdf_data.pdfs, LAMBDA d : d.name = pdf_name)

\* pdf_name.replace('_', ' ').replace('.pdf', '')
DisplayName(pdf_name) ==
    CASE pdf_name = "act_developers_guide_2025r1.pdf" -> "act developers guide 2025r1"
      [] pdf_name = "dpf_post_cheat_sheet.pdf" -> "dpf post cheat sheet"
      [] pdf_name = "scripting_mechanical_2025r1.pdf" -> "scripting mechanical 2025r1"
      [] pdf_name = "guide.pdf" -> "guide"
      [] pdf_name = "api.pdf" -> "api"
      [] OTHER -> pdf_name

Unknown == <<"U", "n", "k", "n", "o", "w", "n">>

\* `if pymech_docs.get("content")`
HasContent(pymech_docs) ==
    Get(pymech_docs, "has_content", FALSE) /\ Get(pymech_docs, "content", <<>>) # <<>>

get_ansys_workbench_overview(pymech_docs, index, pdf_data) ==
    LET stats == Get(index, "statistics", <<>>)
        pdfs == pdf_data.pdfs
    IN Str(<<Part("# Ansys Workbench Scripting Overview", <<>>)>>
           \o (IF stats # <<>>
               THEN <<Part("**Downloaded Resources:**",
                           <<Get(stats, "total_pdfs", 0), Get(stats, "total_size_mb", 0),
                             Get(stats, "total_html_sites", 0),
                             Slice(Get(index, "created", Unknown), 0, 10)>>)>>
               ELSE <<>>)
           \o (IF Get(pdf_data, "files_processed", 0) # 0
               THEN <<Part("**Extracted PDF Content:**",
                           <<Get(pdf_data, "total_pages", 0),
                             Get(pdf_data, "files_processed", 0)>>)>>
               ELSE <<>>)
           \o (IF pdfs # <<>>
               THEN <<Part("**Available Manuals:**",
                           [i \in 1..Len(pdfs) |->
                               <<DisplayName(pdfs[i].name), Get(pdfs[i], "total_pages", 0),
                                 Len(Get(pdfs[i], "chapters", <<>>))>>])>>
               ELSE <<>>)
           \o (IF HasContent(pymech_docs)
               THEN <<Part("**PyMechanical HTML Documentation:**",
                           <<Get(pymech_docs, "processed_files", 0),
                             Get(pymech_docs, "total_files", 0),
                             Slice(Get(pymech_docs, "processed_date", Unknown), 0, 10)>>)>>
               ELSE <<>>)
           \o <<Part("## Getting Started", <<>>)>>)

ArchitectureKeywords ==
    << <<"a", "r", "c", "h", "i", "t", "e", "c", "t", "u", "r", "e">>,
       <<"o", "v", "e", "r", "v", "i", "e", "w">>,
       <<"i", "n", "t", "r", "o", "d", "u", "c", "t", "i", "o", "n">> >>

\* any(keyword in title.lower() for keyword in [...])
AnyKeyword(title, keywords) ==
    \E k \in 1..Len(keywords) : Contains(lower(title), keywords[k])

\* the first element the loop breaks on, as a list of at most one
FirstOf(hits) == IF hits = <<>> THEN <<>> ELSE <<hits[1]>>

get_pymechanical_architecture(pymech_docs, pdf_data) ==
    LET scripting_pdf == "scripting_mechanical_2025r1.pdf"
        chapter == IF HasDoc(pdf_data, scripting_pdf)
                   THEN FirstOf(SelectSeq(get_pdf_chapters(pdf_data, scripting_pdf),
                                            LAMBDA c : AnyKeyword(c.title, ArchitectureKeywords)))
                   ELSE <<>>
        chapter_content ==
            IF chapter = <<>> THEN <<>>
            ELSE get_pdf_content_by_chapter(pdf_data, scripting_pdf, chapter[1].title)
        item == IF HasContent(pymech_docs)
                THEN FirstOf(SelectSeq(pymech_docs.content,
                                         LAMBDA it : AnyKeyword(it.title, <<ArchitectureKeywords[1]>>)))
                ELSE <<>>
    IN Str(<<Part("# PyMechanical Architecture", <<>>)>>
           \o (IF chapter_content # <<>> /\ chapter_content[1].content # <<>>
               THEN <<Part("## From Ansys Scripting Guide: {}",
                           <<chapter[1].title, Slice(chapter_content[1].content, 0, 1500),
                             scripting_pdf>>)>>
               ELSE <<>>)
           \o (IF item # <<>> /\ Slice(item[1].content, 0, 1000) # <<>>
               THEN <<Part("## From PyMechanical Documentation",
                           <<Slice(item[1].content, 0, 1000)>>)>>
               ELSE <<>>))

get_cpython_vs_ironpython_guide == Str(<<Part("# CPython vs IronPython in Ansys Workbench", <<>>)>>)

get_quick_reference_guide == Str(<<Part("# Ansys Workbench Scripting Quick Reference", <<>>)>>)

get_act_development_guide(pdf_data) ==
    LET act_pdf == "act_developers_guide_2025r1.pdf"
        chapters == get_pdf_chapters(pdf_data, act_pdf)
        chapter_content ==
            IF chapters = <<>> THEN <<>>
            ELSE get_pdf_content_by_chapter(pdf_data, act_pdf, chapters[1].title)
        pdf_content == Subscript(pdf_data, act_pdf)
    IN IF ~HasDoc(pdf_data, act_pdf)
       THEN Str(<<Part("# ACT (Application Customization Toolkit) Development Guide", <<>>),
                  Part("## Getting Started with ACT Development", <<>>)>>)
       ELSE IF pdf_content = <<>> THEN KeyError
       ELSE Str(<<Part("# ACT (Application Customization Toolkit) Development Guide", <<>>)>>
                \o (IF chapter_content # <<>> /\ chapter_content[1].content # <<>>
                    THEN <<Part("## From ACT Developer's Guide: {}",
                                <<chapters[1].title,
                                  Slice(chapter_content[1].content, 0, 2000), act_pdf>>)>>
                    ELSE <<>>)
                \o <<Part("## Available Chapters ({} total)",
                          <<Len(chapters), Get(pdf_content[1], "total_pages", 0),
                            [i \in 1..Min(10, Len(chapters)) |-> chapters[i].title]>>),
                     Part("## Getting Started with ACT Development", <<>>)>>)

get_dpf_post_processing_guide(pdf_data) ==
    LET dpf_pdf == "dpf_post_cheat_sheet.pdf"
        pdf_content == Subscript(pdf_data, dpf_pdf)
    IN IF HasDoc(pdf_data, dpf_pdf) /\ pdf_content = <<>> THEN KeyError
       ELSE IF HasDoc(pdf_data, dpf_pdf) /\ pdf_content[1].has_pages
                /\ pdf_content[1].pages # <<>>
       THEN Str(<<Part("# PyDPF-Post Processing Cheat Sheet",
                       <<pdf_content[1].pages[1].clean_text, dpf_pdf>>)>>)
       ELSE Str(<<Part("# PyDPF-Post Processing Guide", <<>>)>>)

\* entry.get('source', 'Unknown')
SourceOf(entry) == IF entry.source.present THEN entry.source.value ELSE "Unknown"

\* the sources of the examples in the order their first example comes, each with the
\* number of its examples
RECURSIVE BySource(_, _)
BySource(examples, seen) ==
    IF examples = <<>> THEN <<>>
    ELSE IF SourceOf(Head(examples)) \in seen THEN BySource(Tail(examples), seen)
    ELSE <<<<DisplayName(SourceOf(Head(examples))),
             Len(SelectSeq(examples, LAMBDA e : SourceOf(e) = SourceOf(Head(examples))))>>>>
             \o BySource(Tail(examples), seen \cup {SourceOf(Head(examples))})

get_scripting_examples_guide(examples) ==
    Str(<<Part("# Ansys Scripting Examples", <<Len(examples)>>),
          Part("## Available Examples", BySource(examples, {}))>>
        \o (IF examples # <<>>
            THEN <<Part("## Sample Examples",
                        [i \in 1..Min(3, Len(examples)) |->
                            <<Get(examples[i], "type", "Code"), SourceOf(examples[i]),
                              Get(examples[i], "page", "N/A"),
                              Slice(Get(examples[i], "code", <<>>), 0, 500)>>])>>
            ELSE <<>>)
        \o <<Part("## Finding Examples", <<>>)>>)

get_api_reference_guide(api_refs) ==
    Str(<<Part("# Ansys API Reference", <<Len(api_refs)>>)>>
        \o (IF api_refs # <<>>
            THEN <<Part("## Sample API References",
                        [i \in 1..Min(5, Len(api_refs)) |->
                            <<Get(api_refs[i], "reference", Unknown), SourceOf(api_refs[i]),
                              Get(api_refs[i], "page", "N/A"),
                              IF Get(api_refs[i], "context", <<>>) # <<>>
                              THEN <<Slice(api_refs[i].context, 0, 200)>>
                              ELSE <<>> >>])>>
            ELSE <<>>)
        \o <<Part("## Using the API", <<>>)>>)

ResourceNames ==
    {"workbench_overview", "pymechanical_architecture", "cpython_vs_ironpython",
     "quick_reference", "act_development", "dpf_post_processing", "scripting_examples",
     "api_reference"}

\* get_resource_content, on the data the loader hands to the generators
get_resource_content(resource_name, pymech_docs, index, pdf_data) ==
    CASE resource_name = "workbench_overview" ->
             get_ansys_workbench_overview(pymech_docs, index, pdf_data)
      [] resource_name = "pymechanical_architecture" ->
             get_pymechanical_architecture(pymech_docs, pdf_data)
      [] resource_name = "cpython_vs_ironpython" -> get_cpython_vs_ironpython_guide
      [] resource_name = "quick_reference" -> get_quick_reference_guide
      [] resource_name = "act_development" -> get_act_development_guide(pdf_data)
      [] resource_name = "dpf_post_processing" -> get_dpf_post_processing_guide(pdf_data)
      [] resource_name = "scripting_examples" ->
             get_scripting_examples_guide(get_code_examples(pdf_data, "all"))
      [] resource_name = "api_reference" ->
             get_api_reference_guide(get_api_references(pdf_data, "all"))
      [] OTHER -> Str(<<Part("Resource '{}' not found.", <<resource_name>>)>>)

\* get_resource_index: the value of self._index_cache after the call; {} is <<>>
get_resource_index(cache, file) ==
    IF cache.is_none THEN Some(OrEmpty(_load_json_file(file), <<>>)) ELSE cache

-----------------------------------------------------------------------------
(* The files the resources are generated from                              *)

ActPdf == "act_developers_guide_2025r1.pdf"

DpfPdf == "dpf_post_cheat_sheet.pdf"

ScriptingPdf == "scripting_mechanical_2025r1.pdf"

IsoDate == <<"2", "0", "2", "5", "-", "0", "1", "-", "0", "2", "T", "0", "3">>

Chapter(title, start_page) == [title |-> title, start_page |-> start_page, sections |-> <<>>]

ResourceDoc(name, n, chapters) == [StoreDoc(name, n) EXCEPT !.chapters = chapters]

\* each of the three manuals the generators name: absent, failed, or extracted
ActDocs ==
    {<<>>, <<FailedDoc(ActPdf)>>, <<ResourceDoc(ActPdf, 0, <<>>)>>,
     <<ResourceDoc(ActPdf, 2, <<Chapter(<<"A", "b">>, 1), Chapter(<<"b">>, 2)>>)>>}

DpfDocs == {<<>>, <<FailedDoc(DpfPdf)>>, <<ResourceDoc(DpfPdf, 1, <<>>)>>}

ScriptingDocs ==
    {<<>>,
     <<ResourceDoc(ScriptingPdf, 1,
                   <<Chapter(<<"O", "v", "e", "r", "v", "i", "e", "w">>, 1)>>)>>}

RECURSIVE TotalPages(_)
\* results["total_pages"]: the pages of the documents extracted without error
TotalPages(pdfs) ==
    IF pdfs = <<>> THEN 0 ELSE Get(Head(pdfs), "total_pages", 0) + TotalPages(Tail(pdfs))

\* the results dict process_all_pdfs writes around the documents
Combined(pdfs) ==
    [processing_date |-> IsoDate,
     files_processed |-> Len(SelectSeq(pdfs, LAMBDA d : d.has_pages)),
     files_failed |-> Len(SelectSeq(pdfs, LAMBDA d : ~d.has_pages)),
     total_pages |-> TotalPages(pdfs),
     pdfs |-> pdfs]

ResourceHtml ==
    [has_content |-> TRUE,
     content |-> <<[title |-> ArchitectureKeywords[1], content |-> <<"b">>,
                    file |-> "index.html"]>>,
     processed_date |-> IsoDate, total_files |-> 2, processed_files |-> 1]

ResourceIndex ==
    [created |-> IsoDate,
     statistics |-> [total_pdfs |-> 3, total_html_sites |-> 1, total_size_mb |-> 40]]

ResourceDisks ==
    {[pdf |-> f, html |-> h, index |-> x] :
        f \in {MissingFile, CorruptFile}
                \cup {JsonFile(Combined(a \o d \o c)) :
                         a \in ActDocs, d \in DpfDocs, c \in ScriptingDocs},
        h \in {MissingFile, JsonFile(ResourceHtml)},
        x \in {MissingFile, JsonFile(ResourceIndex)}}

RequestedNames == ResourceNames \cup {"", "unknown"}

InitResources ==
    /\ \E disk \in ResourceDisks :
          /\ pdf_file = disk.pdf
          /\ html_file = disk.html
          /\ index_file = disk.index
    /\ _pdf_cache = None
    /\ _resource_cache = None
    /\ _index_cache = None
    /\ pc = "idle"
    /\ last = NoCall
    /\ pdf_dir = <<>>
    /\ now = 0
    /\ individual_files = {}
    /\ threads = <<>>
    /\ NotLaunched

\* get_resource_content(resource_name): the generator reads through the loader, which
\* fills the caches the generator asks for; the two list guides write the sources into
\* the cached entries
GetResourceContent ==
    /\ pc = "idle"
    /\ \E resource_name \in RequestedNames :
          LET pymech_docs == get_pymechanical_docs(_resource_cache, html_file)
              index == get_resource_index(_index_cache, index_file)
              pdf_data == get_pdf_data(_pdf_cache, pdf_file)
          IN /\ _resource_cache' =
                    IF resource_name \in {"workbench_overview", "pymechanical_architecture"}
                    THEN pymech_docs ELSE _resource_cache
             /\ _index_cache' =
                    IF resource_name = "workbench_overview" THEN index ELSE _index_cache
             /\ _pdf_cache' =
                    CASE resource_name \in {"workbench_overview", "pymechanical_architecture",
                                            "act_development", "dpf_post_processing"} ->
                             pdf_data
                      [] resource_name = "scripting_examples" ->
                             CacheAfterSourcing(_pdf_cache, pdf_file, "code_examples", "all")
                      [] resource_name = "api_reference" ->
                             CacheAfterSourcing(_pdf_cache, pdf_file, "api_references", "all")
                      [] OTHER -> _pdf_cache
             /\ last' = [op |-> "get_resource_content", resource_name |-> resource_name,
                         result |-> get_resource_content(resource_name, pymech_docs.data,
                                                         index.data, pdf_data.data)]
    /\ pc' = "returned"
    /\ UNCHANGED <<pdf_file, html_file, index_file, extractor_vars, threads,
                   launcher_vars>>

\* the caller has the resource; the loader waits for the next call
ReturnResource ==
    /\ pc = "returned"
    /\ pc' = "idle"
    /\ last' = NoCall
    /\ UNCHANGED <<pdf_file, html_file, index_file, _pdf_cache, _resource_cache,
                   _index_cache, extractor_vars, threads,
                   launcher_vars>>

NextResources ==
    \/ GetResourceContent
    \/ ReturnResource

SpecResources == InitResources /\ [][NextResources]_vars

\* C15: get_resource_content never raises and always returns a string: generated content
\* for each of the eight resource names, whatever files are present, missing or
\* unreadable, and the text "Resource '<name>' not found." for any other name.
C15_ResourceAlwaysString ==
    last.op = "get_resource_content" =>
        /\ ~last.result.raised
        /\ last.result.type = "str"
        /\ last.resource_name \in ResourceNames =>
               /\ last.result.parts # <<>>
               /\ last.result.parts[1].part # "Resource '{}' not found."
        /\ last.resource_name \notin ResourceNames =>
               last.result.parts = <<Part("Resource '{}' not found.", <<last.resource_name>>)>>

\* C15 witness: the ACT guide was asked for while the corpus file is missing, and the dpf
\* guide while its manual is not in the corpus; each came back as text
C15_Witness ==
    /\ last.op = "get_resource_content"
    /\ \/ (last.resource_name = "act_development" /\ ~pdf_file.exists)
       \/ (last.resource_name = "dpf_post_processing" /\ pdf_file.exists /\ pdf_file.valid
              /\ ~HasDoc(pdf_file.data, DpfPdf))
    /\ ~last.result.raised
    /\ last.result.parts # <<>>

-----------------------------------------------------------------------------
(* Scores and snippets: searches over one-page documents whose page text   *)
(* is what the extractor's _clean_text leaves of a raw page text.          *)

\* length of the raw page texts
MaxLen == 4

\* max_results' default in search_content
DefaultMaxResults == 10

TextAlphabet == {"a", "A", "b", " "}

CleanTexts == {_clean_text(raw) : raw \in SeqsUpTo(TextAlphabet, MaxLen)}

TextDoc(text) ==
    [name |-> DocNames[1], has_pages |-> TRUE,
     pages |-> <<[page_number |-> 1, clean_text |-> text]>>, chapters |-> <<>>]

TextHtmlFiles ==
    {MissingFile,
     JsonFile([has_content |-> TRUE,
               content |-> <<[title |-> <<"A", " ", "b">>, content |-> <<"a", "b">>,
                              file |-> "index.html"]>>])}

TextDisks(texts) ==
    {[pdf |-> JsonFile([pdfs |-> <<TextDoc(t)>>]), html |-> h] :
        t \in texts, h \in TextHtmlFiles}

TextQueries ==
    { <<>>, <<" ">>, <<"a">>, <<"A">>, <<"a", "a">>, <<"a", "b">>, <<"b", "x">>,
      <<"a", " ", "b">>, <<"a", " ", "a">> }

\* page texts with the match "Ab" at, or about context_size // 2 characters away from,
\* either end of the text, alone or followed by a second match; _clean_text leaves such
\* a text as it is
Gaps == {0, 149, 150, 151}

Fill(n) == [i \in 1..n |-> "x"]

LongTexts ==
    {Fill(before) \o <<"A", "b">> \o Fill(after) \o tail :
        before \in Gaps, after \in Gaps, tail \in {<<>>, <<" ", "a", "b">>}}

InitFrom(disks) ==
    /\ \E disk \in disks :
          /\ pdf_file = disk.pdf
          /\ html_file = disk.html
    /\ _pdf_cache = None
    /\ _resource_cache = None
    /\ pc = "idle"
    /\ last = NoCall
    /\ pdf_dir = <<>>
    /\ now = 0
    /\ individual_files = {}
    /\ index_file = MissingFile
    /\ _index_cache = None
    /\ threads = <<>>
    /\ NotLaunched

InitText == InitFrom(TextDisks(CleanTexts))

InitSnippet == InitFrom(TextDisks(LongTexts))

\* resource_loader.search_content(query), max_results left at its default
SearchContentDefault ==
    /\ pc = "idle"
    /\ \E query \in TextQueries :
          LET pdf_data == get_pdf_data(_pdf_cache, pdf_file)
              html_data == get_pymechanical_docs(_resource_cache, html_file)
          IN /\ _pdf_cache' = pdf_data
             /\ _resource_cache' = html_data
             /\ last' = [NoCall EXCEPT !.op = "search_content",
                                       !.query = query,
                                       !.max_results = DefaultMaxResults,
                                       !.results = search_content(pdf_data.data, html_data.data,
                                                                  query, DefaultMaxResults)]
    /\ pc' = "returned"
    /\ UNCHANGED <<pdf_file, html_file, extractor_vars, index_vars>>

NextText ==
    \/ SearchContentDefault
    \/ Return

SpecText == InitText /\ [][NextText]_vars

SpecSnippet == InitSnippet /\ [][NextText]_vars

\* the page a PDF result was made from
PageText(r) ==
    LET doc == DocNamed(Loaded(pdf_file).pdfs, r.source)
    IN doc.pages[CHOOSE i \in 1..Len(doc.pages) : doc.pages[i].page_number = r.page].clean_text

\* the text an HTML result was scored on: the item's content, a space and its title
ItemText(r) ==
    LET items == HtmlOnDisk.content
        item == items[CHOOSE i \in 1..Len(items) :
                          items[i].title = r.title /\ items[i].file = r.file]
    IN item.content \o <<" ">> \o item.title

\* the offsets at which sub occurs in text
Occurrences(text, sub) ==
    {i \in 0..(Len(text) - Len(sub)) : \A k \in 1..Len(sub) : text[i + k] = sub[k]}

\* the most occurrences of sub in text no two of which overlap
NonOverlappingCount(text, sub) ==
    LET disjoint == {S \in SUBSET Occurrences(text, sub) :
                        \A i, j \in S : i < j => i + Len(sub) <= j}
    IN CHOOSE n \in 0..(Len(text) + 1) :
           /\ \E S \in disjoint : Cardinality(S) = n
           /\ \A S \in disjoint : Cardinality(S) <= n

\* where the whitespace-separated tokens of text start
TokenStarts(text) ==
    {i \in 1..Len(text) : ~IsSpace(text[i]) /\ (i = 1 \/ IsSpace(text[i - 1]))}

\* the token of text that starts at i
TokenAt(text, i) ==
    SubSeq(text, i, CHOOSE j \in i..Len(text) :
                        /\ \A k \in i..j : ~IsSpace(text[k])
                        /\ j = Len(text) \/ IsSpace(text[j + 1]))

RECURSIVE WordCount(_, _, _)
\* the occurrence counts of the query's tokens that start in starts, added up
WordCount(text, query, starts) ==
    IF starts = {} THEN 0
    ELSE LET i == CHOOSE i \in starts : TRUE
         IN NonOverlappingCount(text, TokenAt(query, i))
                + WordCount(text, query, starts \ {i})

\* (2 * exact_count + word_count) / (W + 1) as numerator and denominator
ClaimedScore(text, query) ==
    <<2 * NonOverlappingCount(lower(text), lower(query))
          + WordCount(lower(text), lower(query), TokenStarts(query)),
      Cardinality(TokenStarts(text)) + 1>>

\* C18: the score of every search result is (2 * exact_count + word_count) / (W + 1):
\* exact_count the number of non-overlapping occurrences of the lowercased query in the
\* text (case-insensitively), word_count the occurrence counts of the query's tokens added
\* up, the tokens inside an exact match included, and W the number of tokens of the text.
\* The text is the page's clean_text, and for an HTML item its content, a space, its title.
C18_ScoreFormula ==
    last.op = "search_content" =>
        \A k \in 1..Len(last.results) :
            LET r == last.results[k]
            IN r.relevance_score =
                   ClaimedScore(IF r.type = "pdf" THEN PageText(r) ELSE ItemText(r),
                                last.query)

\* C18 witness: a PDF result whose page holds overlapping occurrences of the query, of
\* which fewer are counted, and whose score counts the query's words on top of the exact
\* matches
C18_Witness ==
    /\ last.op = "search_content"
    /\ \E k \in 1..Len(last.results) :
          LET r == last.results[k]
              exact == NonOverlappingCount(lower(PageText(r)), lower(last.query))
          IN /\ r.type = "pdf"
             /\ Cardinality(Occurrences(lower(PageText(r)), lower(last.query))) > exact
             /\ exact > 0
             /\ r.relevance_score[1] > 2 * exact

\* the first case-insensitive occurrence of query in text
FirstOccurrence(text, query) ==
    CHOOSE i \in Occurrences(lower(text), lower(query)) :
        \A j \in Occurrences(lower(text), lower(query)) : i <= j

\* C19: the snippet of a page result is the page text from 150 characters before the
\* first case-insensitive occurrence of the query to 150 characters after its end, clipped
\* to the text, with the ellipsis in front exactly when the window starts behind the text
\* start and at the end exactly when it ends before the text end; it is never longer than
\* len(query) + 300 characters and the two markers.
C19_SnippetIsClippedWindow ==
    last.op = "search_content" =>
        \A k \in 1..Len(last.results) :
            LET r == last.results[k]
                text == PageText(r)
                first == FirstOccurrence(text, last.query)
                from == Max(0, first - 150)
                to == Min(Len(text), first + Len(last.query) + 150)
            IN r.type = "pdf" =>
                   /\ r.context = (IF from > 0 THEN Ellipsis ELSE <<>>)
                                      \o [c \in 1..(to - from) |-> text[from + c]]
                                      \o (IF to < Len(text) THEN Ellipsis ELSE <<>>)
                   /\ Len(r.context) <= Len(last.query) + 300 + 2 * Len(Ellipsis)

\* C19 witness: a page result whose match lies more than 150 characters from both ends of
\* the page text; its snippet has both markers and the full length
C19_Witness ==
    /\ last.op = "search_content"
    /\ \E k \in 1..Len(last.results) :
          LET r == last.results[k]
              first == FirstOccurrence(PageText(r), last.query)
          IN /\ r.type = "pdf"
             /\ last.query # <<>>
             /\ first > 150
             /\ first + Len(last.query) + 150 < Len(PageText(r))
             /\ Len(r.context) = Len(last.query) + 300 + 2 * Len(Ellipsis)


\* C27: every entry search_content returns has a relevance score above zero, whatever the
\* query (the empty one included) and the corpus.
C27_ScoresPositive ==
    last.op = "search_content" =>
        \A i \in 1..Len(last.results) :
            /\ last.results[i].relevance_score[1] > 0
            /\ last.results[i].relevance_score[2] > 0

\* C27 witness: the empty query was answered with a page entry and an HTML entry
C27_Witness ==
    /\ last.op = "search_content" /\ last.query = <<>>
    /\ \E i \in 1..Len(last.results) : last.results[i].type = "pdf"
    /\ \E i \in 1..Len(last.results) : last.results[i].type = "html"

\* C28: the search does not depend on the letter case of the query: a query that differs
\* from the one asked only in the case of its letters gets the same list, entry by entry
\* (source, page, snippet, score) and in the same order.
C28_QueryCaseIgnored ==
    last.op = "search_content" =>
        \A query \in Queries :
            lower(query) = lower(last.query) =>
                search_content(_pdf_cache.data, _resource_cache.data, query, last.max_results)
                    = last.results

\* C28 witness: a query with a capital letter was answered with two entries, and the
\* queries of the model hold the same query in small letters
C28_Witness ==
    /\ last.op = "search_content"
    /\ \E c \in 1..Len(last.query) : LowerChar(last.query[c]) # last.query[c]
    /\ \E query \in Queries : query # last.query /\ lower(query) = lower(last.query)
    /\ Len(last.results) = 2

-----------------------------------------------------------------------------
(* The tools of the two servers: the HTTP server's three tool functions    *)
(* and the stdio server's call_tool. A tool's text is the list of the      *)
(* f-strings it appends, each with the values it interpolates.             *)

\* str.upper() of a result's type
Upper(type) ==
    CASE type = "pdf" -> "PDF"
      [] type = "html" -> "HTML"
      [] OTHER -> type

\* f"{score:.3f}": the score in thousandths, rounded to the nearest
Format3f(score) == (2000 * score[1] + score[2]) \div (2 * score[2])

\* the HTTP server's search_ansys_docs(query, max_results)
search_ansys_docs(pdf_data, html_data, query, max_results) ==
    LET results == search_content(pdf_data, html_data, query, max_results)
    IN IF results = <<>>
       THEN <<Part("No results found for query: '{}'", <<query>>)>>
       ELSE <<Part("# Search Results for: '{}'", <<query>>),
              Part("Found {} relevant results:", <<Len(results)>>)>>
            \o Concat([i \in 1..Len(results) |->
                 <<Part("## Result {}: {}", <<i, results[i].source>>),
                   IF results[i].type = "pdf"
                   THEN Part("**Source**: {} (Page {})",
                             <<results[i].source, results[i].page>>)
                   ELSE Part("**Source**: {}", <<Get(results[i], "title", "Unknown Title")>>),
                   Part("**Type**: {}", <<Upper(results[i].type)>>),
                   Part("**Relevance**: {:.3f}", <<Format3f(results[i].relevance_score)>>),
                   Part("**Context**: {}", <<results[i].context>>),
                   Part("---", <<>>)>>])

\* a faulty get_code_example that has lost the [:5] and shows every relevant example
get_code_example_unlimited(pdf_data, topic) ==
    LET examples == get_code_examples(pdf_data, "all")
        relevant_examples ==
            SelectSeq(examples, LAMBDA ex :
                \/ Contains(lower(Get(ex, "code", <<>>)), lower(topic))
                \/ Contains(lower(Get(ex, "context", <<>>)), lower(topic)))
    IN IF relevant_examples = <<>>
       THEN <<Part("No code examples found for topic: '{}'", <<topic>>)>>
       ELSE <<Part("# Code Examples for: '{}'", <<topic>>)>>
            \o Concat([i \in 1..Len(relevant_examples) |->
                 <<Part("## Example {}", <<i>>),
                   Part("**Source**: {} (Page {})",
                        <<SourceOf(relevant_examples[i]), Get(relevant_examples[i], "page", "N/A")>>),
                   Part("**Type**: {}", <<Get(relevant_examples[i], "type", "code")>>),
                   Part("(python code block) {}", <<Get(relevant_examples[i], "code", <<>>)>>)>>
                 \o (IF Get(relevant_examples[i], "context", <<>>) # <<>>
                     THEN <<Part("**Context**: {}...",
                                 <<Slice(relevant_examples[i].context, 0, 300)>>)>>
                     ELSE <<>>)
                 \o <<Part("---", <<>>)>>])

\* the HTTP server's get_code_example(topic)
get_code_example(pdf_data, topic) ==
    LET examples == get_code_examples(pdf_data, "all")
        relevant_examples ==
            SelectSeq(examples, LAMBDA ex :
                \/ Contains(lower(Get(ex, "code", <<>>)), lower(topic))
                \/ Contains(lower(Get(ex, "context", <<>>)), lower(topic)))
        shown == Truncate(relevant_examples, 5)
    IN IF relevant_examples = <<>>
       THEN <<Part("No code examples found for topic: '{}'", <<topic>>)>>
       ELSE <<Part("# Code Examples for: '{}'", <<topic>>)>>
            \o Concat([i \in 1..Len(shown) |->
                 <<Part("## Example {}", <<i>>),
                   Part("**Source**: {} (Page {})",
                        <<SourceOf(shown[i]), Get(shown[i], "page", "N/A")>>),
                   Part("**Type**: {}", <<Get(shown[i], "type", "code")>>),
                   Part("(python code block) {}", <<Get(shown[i], "code", <<>>)>>)>>
                 \o (IF Get(shown[i], "context", <<>>) # <<>>
                     THEN <<Part("**Context**: {}...", <<Slice(shown[i].context, 0, 300)>>)>>
                     ELSE <<>>)
                 \o <<Part("---", <<>>)>>])

\* CallToolResult(content=[TextContent(type="text", text=content)])
CallToolResult(content) == [content |-> <<[type |-> "text", text |-> content]>>]

\* raise ValueError(f"Unknown tool: {name}")
ValueError(name) == [raised |-> "ValueError", name |-> name]

\* the stdio server's call_tool(name, arguments)
call_tool(name, arguments, pdf_data, html_data) ==
    CASE name = "search_ansys_docs" ->
           LET query == Get(arguments, "query", <<>>)
               max_results == Get(arguments, "max_results", 10)
               results == search_content(pdf_data, html_data, query, max_results)
           IN CallToolResult(
                IF results = <<>>
                THEN <<Part("No results found for query: '{}'", <<query>>)>>
                ELSE <<Part("# Search Results for: '{}'", <<query>>),
                       Part("Found {} relevant results:", <<Len(results)>>)>>
                     \o Concat([i \in 1..Len(results) |->
                          <<Part("## Result {}: {}", <<i, results[i].source>>),
                            IF results[i].type = "pdf"
                            THEN Part("**Source**: {} (Page {})",
                                      <<results[i].source, results[i].page>>)
                            ELSE Part("**Source**: {}",
                                      <<Get(results[i], "title", "Unknown Title")>>),
                            Part("**Type**: {}", <<Upper(results[i].type)>>),
                            Part("**Relevance**: {:.3f}",
                                 <<Format3f(results[i].relevance_score)>>),
                            Part("**Context**: {}", <<results[i].context>>),
                            Part("---", <<>>)>>]))
      [] name = "get_code_example" ->
           LET topic == Get(arguments, "topic", <<>>)
               examples == get_code_examples(pdf_data, "all")
               relevant_examples ==
                   SelectSeq(examples, LAMBDA ex :
                       \/ Contains(lower(Get(ex, "code", <<>>)), lower(topic))
                       \/ Contains(lower(Get(ex, "context", <<>>)), lower(topic)))
               shown == Truncate(relevant_examples, 5)
           IN CallToolResult(
                IF relevant_examples = <<>>
                THEN <<Part("No code examples found for topic: '{}'", <<topic>>)>>
                ELSE <<Part("# Code Examples for: '{}'", <<topic>>)>>
                     \o Concat([i \in 1..Len(shown) |->
                          <<Part("## Example {}", <<i>>),
                            Part("**Source**: {} (Page {})",
                                 <<SourceOf(shown[i]), Get(shown[i], "page", "N/A")>>),
                            Part("**Type**: {}", <<Get(shown[i], "type", "code")>>),
                            Part("(python code block) {}", <<Get(shown[i], "code", <<>>)>>)>>
                          \o (IF Get(shown[i], "context", <<>>) # <<>>
                              THEN <<Part("**Context**: {}...",
                                          <<Slice(shown[i].context, 0, 300)>>)>>
                              ELSE <<>>)
                          \o <<Part("---", <<>>)>>]))
      [] name = "get_chapter_content" ->
           LET pdf_name == Get(arguments, "pdf_name", "")
               chapter_title == Get(arguments, "chapter_title", <<>>)
               chapter_content == get_pdf_content_by_chapter(pdf_data, pdf_name, chapter_title)
           IN CallToolResult(
                IF chapter_content = <<>>
                THEN LET available_chapters == get_pdf_chapters(pdf_data, pdf_name)
                         chapter_list ==
                             join(<<"\n">>, [i \in 1..Len(available_chapters) |->
                                                <<"-", " ">> \o available_chapters[i].title])
                     IN [template |-> "Chapter '{}' not found in {}. Available chapters: {}",
                         chapter_title |-> chapter_title, pdf_name |-> pdf_name,
                         title |-> <<>>, start_page |-> 0, end_page |-> 0,
                         truncated |-> FALSE, body |-> chapter_list]
                ELSE LET chapter_text == chapter_content[1].content
                     IN [template |-> "# {} Source: {} Pages: {} - {} {}",
                         chapter_title |-> chapter_title, pdf_name |-> pdf_name,
                         title |-> chapter_content[1].title,
                         start_page |-> chapter_content[1].start_page,
                         end_page |-> chapter_content[1].end_page,
                         truncated |-> Len(chapter_text) > 5000,
                         body |-> IF Len(chapter_text) > 5000
                                  THEN Slice(chapter_text, 0, 5000)
                                  ELSE chapter_text])
      [] OTHER -> ValueError(name)

-----------------------------------------------------------------------------
(* The two servers over one loader state: each tool is called through the  *)
(* HTTP server's function or through the stdio server's call_tool.         *)

ToolNames == {"search_ansys_docs", "get_code_example", "get_chapter_content"}

Topics == { <<>>, <<"a">>, <<"A", "B">>, <<"x">>, <<"c">> }

\* a code example as the corpus file holds it: the context of the first is longer than
\* the 300 characters a tool shows, the third has none
CodeExample(i) ==
    [page |-> i,
     code |-> IF i = 2 THEN <<"b">> ELSE <<"a", "b">>,
     context |-> IF i = 1 THEN Fill(301) ELSE IF i = 3 THEN <<>> ELSE <<"a">>,
     type |-> IF i = 2 THEN "code" ELSE "python",
     source |-> NoSource]

\* documents with no, one or six code examples, with and without chapters
ToolDocs ==
    {[name |-> DocNames[1], has_pages |-> TRUE,
      pages |-> [i \in 1..Len(texts) |-> [page_number |-> i, clean_text |-> texts[i]]],
      chapters |-> chapters,
      code_examples |-> [i \in 1..n |-> CodeExample(i)]] :
        texts \in {<<>>, <<<<"a">>, <<"A", " ", "a">>>>},
        chapters \in {<<>>, <<Chapter(<<"A", "b">>, 1), Chapter(<<"b">>, 2)>>},
        n \in {0, 1, 6}}

\* a document whose only chapter is one character longer than a tool shows
LongDoc ==
    [name |-> DocNames[1], has_pages |-> TRUE,
     pages |-> <<[page_number |-> 1, clean_text |-> Fill(ChapterTruncate + 1)]>>,
     chapters |-> <<Chapter(<<"b">>, 1)>>,
     code_examples |-> <<>>]

ToolDisks ==
    {[pdf |-> f, html |-> h] :
        f \in {MissingFile, JsonFile([pdfs |-> <<>>]),
               JsonFile([pdfs |-> <<FailedDoc(DocNames[1])>>])}
              \cup {JsonFile([pdfs |-> <<d>>]) : d \in ToolDocs},
        h \in HtmlFiles}
    \cup {[pdf |-> JsonFile([pdfs |-> <<LongDoc>>]), html |-> MissingFile]}

\* the queries of the search tool
ToolQueries == { <<"a">>, <<"A">>, <<"a", " ", "b">>, <<"c">> }

\* the arguments a client sends with a tool call: max_results may be left out
ToolArguments(name) ==
    CASE name = "search_ansys_docs" ->
           {[query |-> q] : q \in ToolQueries}
           \cup {[query |-> q, max_results |-> m] : q \in ToolQueries, m \in {1, MaxResults}}
      [] name = "get_code_example" -> {[topic |-> t] : t \in Topics}
      [] OTHER -> {[pdf_name |-> DocNames[i], chapter_title |-> f] :
                      i \in 1..Len(DocNames), f \in Fragments}

InitTools == InitFrom(ToolDisks)

\* the HTTP server: search_ansys_docs(query, max_results=10)
SearchAnsysDocs ==
    /\ pc = "idle"
    /\ \E arguments \in ToolArguments("search_ansys_docs") :
          LET pdf_data == get_pdf_data(_pdf_cache, pdf_file)
              html_data == get_pymechanical_docs(_resource_cache, html_file)
          IN /\ _pdf_cache' = pdf_data
             /\ _resource_cache' = html_data
             /\ last' = [op |-> "search_ansys_docs", arguments |-> arguments,
                         text |-> search_ansys_docs(pdf_data.data, html_data.data,
                                                    arguments.query,
                                                    Get(arguments, "max_results", 10))]
    /\ pc' = "returned"
    /\ UNCHANGED <<pdf_file, html_file, extractor_vars, index_vars>>

\* the HTTP server: get_code_example(topic)
GetCodeExample ==
    /\ pc = "idle"
    /\ \E arguments \in ToolArguments("get_code_example") :
          /\ _pdf_cache' = CacheAfterSourcing(_pdf_cache, pdf_file, "code_examples", "all")
          /\ last' = [op |-> "get_code_example", arguments |-> arguments,
                      text |-> get_code_example(get_pdf_data(_pdf_cache, pdf_file).data,
                                                arguments.topic)]
    /\ pc' = "returned"
    /\ UNCHANGED <<pdf_file, html_file, _resource_cache, extractor_vars, index_vars>>

\* the HTTP server: get_chapter_content(pdf_name, chapter_title)
GetChapterContentHttp ==
    /\ pc = "idle"
    /\ \E arguments \in ToolArguments("get_chapter_content") :
          LET pdf_data == get_pdf_data(_pdf_cache, pdf_file)
          IN /\ _pdf_cache' = pdf_data
             /\ last' = [op |-> "get_chapter_content", arguments |-> arguments,
                         text |-> get_chapter_content(pdf_data.data, arguments.pdf_name,
                                                      arguments.chapter_title)]
    /\ pc' = "returned"
    /\ UNCHANGED <<pdf_file, html_file, _resource_cache, extractor_vars, index_vars>>

\* the stdio server: call_tool(name, arguments)
CallTool ==
    /\ pc = "idle"
    /\ \E name \in ToolNames :
          \E arguments \in ToolArguments(name) :
             LET pdf_data == get_pdf_data(_pdf_cache, pdf_file)
                 html_data == get_pymechanical_docs(_resource_cache, html_file)
             IN /\ _pdf_cache' =
                       IF name = "get_code_example"
                       THEN CacheAfterSourcing(_pdf_cache, pdf_file, "code_examples", "all")
                       ELSE pdf_data
                /\ _resource_cache' =
                       IF name = "search_ansys_docs" THEN html_data ELSE _resource_cache
                /\ last' = [op |-> "call_tool", name |-> name, arguments |-> arguments,
                            result |-> call_tool(name, arguments, pdf_data.data,
                                                 html_data.data)]
    /\ pc' = "returned"
    /\ UNCHANGED <<pdf_file, html_file, extractor_vars, index_vars>>

NextTools ==
    \/ SearchAnsysDocs
    \/ GetCodeExample
    \/ GetChapterContentHttp
    \/ CallTool
    \/ Return

SpecTools == InitTools /\ [][NextTools]_vars

\* the text the HTTP server's tool of that name returns for the arguments
HttpText(name, arguments, pdf_data, html_data) ==
    CASE name = "search_ansys_docs" ->
           search_ansys_docs(pdf_data, html_data, arguments.query,
                             Get(arguments, "max_results", 10))
      [] name = "get_code_example" -> get_code_example(pdf_data, arguments.topic)
      [] OTHER -> get_chapter_content(pdf_data, arguments.pdf_name, arguments.chapter_title)

\* the text of the CallToolResult the stdio server returns
StdioText(name, arguments, pdf_data, html_data) ==
    call_tool(name, arguments, pdf_data, html_data).content[1].text

\* C25: a tool called through either server returns the text the other server returns for
\* the same tool, the same arguments and the same loader state (the state before the call).
C25_TransportsAgree ==
    [][LET pdf_data == get_pdf_data(_pdf_cache, pdf_file).data
           html_data == get_pymechanical_docs(_resource_cache, html_file).data
       IN /\ last'.op \in ToolNames =>
                last'.text = StdioText(last'.op, last'.arguments, pdf_data, html_data)
          /\ last'.op = "call_tool" =>
                last'.result.content[1].text =
                    HttpText(last'.name, last'.arguments, pdf_data, html_data)]_vars

\* C25 witness: the stdio server answered get_code_example for a topic six examples of the
\* corpus are relevant to, and showed five of them
C25_Witness ==
    /\ last.op = "call_tool" /\ last.name = "get_code_example"
    /\ Len(SelectSeq(get_code_examples(_pdf_cache.data, "all"), LAMBDA ex :
              \/ Contains(lower(ex.code), lower(last.arguments.topic))
              \/ Contains(lower(ex.context), lower(last.arguments.topic)))) = 6
    /\ Len(SelectSeq(last.result.content[1].text, LAMBDA p : p.part = "## Example {}")) = 5

-----------------------------------------------------------------------------
(* The launchers: MCPHTTPLauncher and MCPSTDIOLauncher, started from       *)
(* main(), which installs signal_handler for SIGINT and SIGTERM before it  *)
(* calls run().  The two differ in how the server's start is awaited.      *)

\* signals a launcher process receives
MaxSignals == 2

Launchers == {"http", "stdio"}

Children == {"server", "inspector"}

\* main() has made the launcher and installed the handlers; run() is about to start
Launched(kind) ==
    [kind |-> kind, pc |-> "check_dependencies", handler |-> "none",
     dependencies |-> TRUE, after |-> "none", result |-> "none",
     child |-> [c \in Children |-> "none"],
     terminated |-> {}, killed |-> {}, cleanups |-> 0, signals |-> 0]

InitLauncher ==
    /\ pdf_file = MissingFile
    /\ html_file = MissingFile
    /\ _pdf_cache = None
    /\ _resource_cache = None
    /\ pc = "idle"
    /\ last = NoCall
    /\ pdf_dir = <<>>
    /\ now = 0
    /\ individual_files = {}
    /\ index_file = MissingFile
    /\ _index_cache = None
    /\ threads = <<>>
    /\ server_process = "None"
    /\ inspector_process = "None"
    /\ \E kind \in Launchers : launcher = Launched(kind)

loader_vars == <<pdf_file, html_file, _pdf_cache, _resource_cache, pc, last,
                 extractor_vars, index_file, _index_cache, threads>>

\* run() is executing its own code: no handler is running and it has not ended
Running(at) == launcher.pc = at /\ launcher.handler = "none"

\* one block of cleanup() for the child c with the handle process: nothing without a
\* handle; else terminate() and wait(timeout=5), and kill() when the wait timed out.  A
\* child that has exited before is left alone by terminate().
Stop(l, c, process, timed_out) ==
    IF process = "None" THEN l
    ELSE [l EXCEPT !.terminated = @ \cup {c},
                   !.killed = IF l.child[c] = "running" /\ timed_out THEN @ \cup {c} ELSE @,
                   !.child[c] = IF @ = "running" THEN "exited" ELSE @]

\* run(): `if not self.check_dependencies(): return 1`
CheckDependencies ==
    /\ Running("check_dependencies")
    /\ \E ok \in BOOLEAN :
          launcher' = IF ok THEN [launcher EXCEPT !.pc = "popen_server"]
                      ELSE [launcher EXCEPT !.dependencies = FALSE, !.pc = "done",
                                            !.result = "1"]
    /\ UNCHANGED <<server_process, inspector_process, loader_vars>>

\* start_http_server / start_stdio_server: subprocess.Popen(...) starts the child, or
\* raises, which the method answers with False and run() with cleanup() and return 1
PopenServer ==
    /\ Running("popen_server")
    /\ \E started \in BOOLEAN :
          launcher' = IF started
                      THEN [launcher EXCEPT !.child["server"] = "running",
                                            !.pc = "store_server"]
                      ELSE [launcher EXCEPT !.pc = "cleanup_server", !.after = "1"]
    /\ UNCHANGED <<server_process, inspector_process, loader_vars>>

\* `self.server_process = ` the Popen object
StoreServer ==
    /\ Running("store_server")
    /\ server_process' = "Popen"
    /\ launcher' = [launcher EXCEPT !.pc = "await_server"]
    /\ UNCHANGED <<inspector_process, loader_vars>>

\* the HTTP launcher asks the server's URL up to ten times and gives up when no answer
\* came (whatever listens on the port may answer); the stdio launcher sleeps and polls the
\* process
AwaitServer ==
    /\ Running("await_server")
    /\ \E answered \in BOOLEAN :
          LET up == IF launcher.kind = "http" THEN answered
                    ELSE launcher.child["server"] = "running"
          IN launcher' = IF up THEN [launcher EXCEPT !.pc = "popen_inspector"]
                         ELSE [launcher EXCEPT !.pc = "cleanup_server", !.after = "1"]
    /\ UNCHANGED <<server_process, inspector_process, loader_vars>>

\* start_inspector: subprocess.Popen(["npx", ...]) starts the child or raises
PopenInspector ==
    /\ Running("popen_inspector")
    /\ \E started \in BOOLEAN :
          launcher' = IF started
                      THEN [launcher EXCEPT !.child["inspector"] = "running",
                                            !.pc = "store_inspector"]
                      ELSE [launcher EXCEPT !.pc = "cleanup_server", !.after = "1"]
    /\ UNCHANGED <<server_process, inspector_process, loader_vars>>

\* `self.inspector_process = ` the Popen object
StoreInspector ==
    /\ Running("store_inspector")
    /\ inspector_process' = "Popen"
    /\ launcher' = [launcher EXCEPT !.pc = "await_inspector"]
    /\ UNCHANGED <<server_process, loader_vars>>

\* start_inspector: time.sleep(5), then `self.inspector_process.poll() is None`
AwaitInspector ==
    /\ Running("await_inspector")
    /\ launcher' = IF launcher.child["inspector"] = "running"
                   THEN [launcher EXCEPT !.pc = "loop"]
                   ELSE [launcher EXCEPT !.pc = "cleanup_server", !.after = "1"]
    /\ UNCHANGED <<server_process, inspector_process, loader_vars>>

\* the `while True` of run(): a child that has exited breaks the loop, and the finally
\* clause calls cleanup() before `return 0`
Loop ==
    /\ Running("loop")
    /\ \E c \in Children : launcher.child[c] = "exited"
    /\ launcher' = [launcher EXCEPT !.pc = "cleanup_server", !.after = "0"]
    /\ UNCHANGED <<server_process, inspector_process, loader_vars>>

\* a child ends by itself
ChildExits ==
    /\ launcher.pc # "done"
    /\ \E c \in Children :
          /\ launcher.child[c] = "running"
          /\ launcher' = [launcher EXCEPT !.child[c] = "exited"]
    /\ UNCHANGED <<server_process, inspector_process, loader_vars>>

\* cleanup() called by run(): the block for the server
CleanupServer ==
    /\ Running("cleanup_server")
    /\ \E timed_out \in BOOLEAN :
          launcher' = Stop([launcher EXCEPT !.cleanups = @ + 1, !.pc = "cleanup_inspector"],
                           "server", server_process, timed_out)
    /\ UNCHANGED <<server_process, inspector_process, loader_vars>>

\* cleanup() called by run(): the block for the inspector; then run() returns, or the
\* SystemExit that was on its way through the finally clause leaves run()
CleanupInspector ==
    /\ Running("cleanup_inspector")
    /\ \E timed_out \in BOOLEAN :
          launcher' = Stop([launcher EXCEPT !.pc = "done", !.result = launcher.after],
                           "inspector", inspector_process, timed_out)
    /\ UNCHANGED <<server_process, inspector_process, loader_vars>>

\* SIGINT or SIGTERM arrives: Python runs signal_handler between two bytecodes of whatever
\* the main thread executes, run() or a handler already running
Signal ==
    /\ launcher.pc \notin {"none", "done"}
    /\ launcher.signals < MaxSignals
    /\ launcher' = [launcher EXCEPT !.signals = @ + 1, !.handler = "cleanup_server"]
    /\ UNCHANGED <<server_process, inspector_process, loader_vars>>

\* signal_handler: launcher.cleanup(), the block for the server
HandlerCleanupServer ==
    /\ launcher.handler = "cleanup_server"
    /\ \E timed_out \in BOOLEAN :
          launcher' = Stop([launcher EXCEPT !.cleanups = @ + 1,
                                            !.handler = "cleanup_inspector"],
                           "server", server_process, timed_out)
    /\ UNCHANGED <<server_process, inspector_process, loader_vars>>

\* signal_handler: the block for the inspector, then sys.exit(0).  The SystemExit is raised
\* where run() stood: inside the try of the loop it runs the finally clause, cleanup()
\* once more, and goes on; anywhere else nothing catches it
HandlerCleanupInspector ==
    /\ launcher.handler = "cleanup_inspector"
    /\ \E timed_out \in BOOLEAN :
          launcher' =
              Stop(IF launcher.pc = "loop"
                   THEN [launcher EXCEPT !.handler = "none", !.pc = "cleanup_server",
                                         !.after = "SystemExit"]
                   ELSE [launcher EXCEPT !.handler = "none", !.pc = "done",
                                         !.result = "SystemExit"],
                   "inspector", inspector_process, timed_out)
    /\ UNCHANGED <<server_process, inspector_process, loader_vars>>

NextLauncher ==
    \/ CheckDependencies
    \/ PopenServer
    \/ StoreServer
    \/ AwaitServer
    \/ PopenInspector
    \/ StoreInspector
    \/ AwaitInspector
    \/ Loop
    \/ ChildExits
    \/ CleanupServer
    \/ CleanupInspector
    \/ Signal
    \/ HandlerCleanupServer
    \/ HandlerCleanupInspector

SpecLauncher == InitLauncher /\ [][NextLauncher]_vars

Started(c) == launcher.child[c] # "none"

\* C30: when run() has ended, by a return or by the SystemExit of the signal handler, after
\* a child was started, cleanup() has run and every started child has had terminate()
\* called on it and is gone (by itself, by the terminate, or by the kill after the five
\* seconds); when the dependency check fails, run() returns 1 and has started no child.
C30_ChildrenStoppedOnExit ==
    launcher.pc = "done" =>
        /\ ~launcher.dependencies =>
              launcher.result = "1" /\ \A c \in Children : ~Started(c)
        /\ (\E c \in Children : Started(c)) => launcher.cleanups >= 1
        /\ \A c \in Children :
              Started(c) => c \in launcher.terminated /\ launcher.child[c] = "exited"

=============================================================================
